---- MODULE Spec2Model ----
(***************************************************************************)
(* Quiz session engine of bot.py: the per-chat session table group_state,  *)
(* the global QUIZ_RUNNING / QUIZ_PAUSED flags, the cumulative leaderboard *)
(* and the results history, driven by the command and callback handlers    *)
(* (start_quiz, quiz_pause, quiz_resume, quiz_stop, handle_answer,         *)
(* handle_resetboard) and by timeout_check, and the rankings computed from *)
(* the boards and the history (send_leaderboard, build_time_leaderboard).  *)
(*                                                                         *)
(* Scores are kept in hundredths of a mark (1.0 -> 100, -0.33 -> -33).     *)
(* Python dicts are functions whose DOMAIN is the set of keys; where the   *)
(* code depends on insertion order (user_stats, a chat's board) the dict   *)
(* is a sequence of entries in insertion order.  None is 0 where the code  *)
(* only tests the value for truth (msg_id, start).  What the Telegram API  *)
(* answers to a send is an input of the handler that sends.                *)
(***************************************************************************)
EXTENDS Integers, Sequences, FiniteSets, TLC

\* ------------------------------------------------------------------ bounds
\* Largest clock value the model explores.
MaxNow == 91
\* Largest number of successful /quiz starts in one behaviour.
MaxStarts == 2
\* Largest number of accepted answers in one behaviour.
MaxAnswers == 2

\* ------------------------------------------------------- program constants
DEFAULT_QUESTION_TIME == 45
MARK_CORRECT == 100
MARK_WRONG == -33

\* ------------------------------------------------------------ input samples
Rooms == {1, 2}
Users == {1, 2}
Selections == {0, 1}
NoTopic == "<none>"
\* Clock increments between two handler calls.
Deltas == {45, 60}

\* The words that follow /quiz in the command texts sent.
QuizTexts == { << >>, << "FULL" >>, << "History", "long" >>, << "Maths" >> }

\* Commands: << chat, is_admin(message) >>; one sender who is not an admin.
Requests == (Rooms \X {TRUE}) \cup {<< 1, FALSE >>}

\* Callback queries: << chat, user, well-formed data, question id, option >>.
\* Chat 1 gets every answer of every user and one malformed callback; chat 2
\* gets the answers of user 1 to question 11.
Callbacks ==
  ({1} \X Users \X {TRUE} \X {11, 12} \X Selections)
    \cup {<< 1, 1, FALSE, 11, 0 >>, << 2, 1, TRUE, 11, 0 >>}

QuestionIds == {11, 12}

\* What api_call returns for sendMessage: the reply of the API with the id of
\* the message sent, or nothing that counts (None, or a reply with ok false).
MessageIds == {7}
NoReply == [ok |-> FALSE, message_id |-> 0]
Delivered == [ok |-> TRUE, message_id |-> 7]
Replies == {NoReply} \cup {[ok |-> TRUE, message_id |-> m] : m \in MessageIds}

\* The name a callback carries for its sender (first and last name); a sender
\* without names and username is shown by str(user_id).
NameOf(u) ==
  CASE u = 1 -> "Asha"
    [] u = 2 -> "Ravi"
    [] OTHER -> ToString(u)

\* The question bank the bot has loaded: ids differ from list positions.
InitialQuestions ==
  << [id |-> 11, topic |-> "history", correct |-> 0],
     [id |-> 12, topic |-> "Polity", correct |-> 1] >>

VARIABLES
  QUESTIONS,        \* list of questions
  QUESTION_TIME,    \* seconds per question
  QUIZ_RUNNING,     \* global flag
  QUIZ_PAUSED,      \* global flag
  group_state,      \* chat_id -> session dict
  leaderboard,      \* chat_id -> board (entries in insertion order)
  results_history,  \* chat_id -> list of records
  now,              \* time.time()
  nStarts,          \* number of sessions created so far
  nAnswers,         \* number of answers accepted so far
  sessAcc,          \* chat_id -> <<qid, user>> -> answers accepted since the chat's last start
  everAcc           \* <<chat_id, qid, user>> -> answers accepted so far

vars == << QUESTIONS, QUESTION_TIME, QUIZ_RUNNING, QUIZ_PAUSED, group_state,
           leaderboard, results_history, now, nStarts, nAnswers, sessAcc, everAcc >>

engine == << QUESTIONS, QUESTION_TIME, QUIZ_RUNNING, QUIZ_PAUSED, group_state,
             leaderboard, results_history >>

\* ----------------------------------------------------------------- helpers
Min(a, b) == IF a <= b THEN a ELSE b

\* str.lower() on the topic strings in use.
Lower(s) ==
  CASE s = "History" -> "history"
    [] s = "Polity" -> "polity"
    [] s = "FULL" -> "full"
    [] OTHER -> s

\* Variant of Pop that leaves the key in the dict.
Pop_KeepsKey(d, k) == d

\* dict.pop(key, None)
Pop(d, k) == [x \in DOMAIN d \ {k} |-> d[x]]

\* d[key] = value
Put(d, k, v) == [x \in DOMAIN d \cup {k} |-> IF x = k THEN v ELSE d[x]]

\* dict.get(key, default)
Get(d, k, default) == IF k \in DOMAIN d THEN d[k] ELSE default

\* position of uid's entry in an insertion-ordered dict, 0 when absent
IndexOf(entries, uid) ==
  IF \E i \in 1 .. Len(entries) : entries[i].uid = uid
  THEN CHOOSE i \in 1 .. Len(entries) : entries[i].uid = uid
  ELSE 0

\* ---------------------------------------------------------- parse_quiz_args
allowed_modes == {"short", "long", "full"}

\* The loop over the words: a mode word sets the mode, the first other word is
\* the topic, further words are ignored.
RECURSIVE ParseFrom(_, _, _, _)
ParseFrom(args, i, topic, mode) ==
  IF i > Len(args) THEN << topic, mode >>
  ELSE IF Lower(args[i]) \in allowed_modes
       THEN ParseFrom(args, i + 1, topic, Lower(args[i]))
  ELSE IF topic = NoTopic THEN ParseFrom(args, i + 1, args[i], mode)
  ELSE ParseFrom(args, i + 1, topic, mode)

\* << topic, mode >> with topic None and mode "short" unless the words say else
parse_quiz_args(args) == ParseFrom(args, 1, NoTopic, "short")

\* /quiz arguments as parse_quiz_args returns them: << topic, mode >>.
QuizArgs == {parse_quiz_args(t) : t \in QuizTexts}

\* ------------------------------------------------------------------- state
Init ==
  /\ QUESTIONS = InitialQuestions
  /\ QUESTION_TIME = DEFAULT_QUESTION_TIME
  /\ QUIZ_RUNNING = FALSE
  /\ QUIZ_PAUSED = FALSE
  /\ group_state = << >>
  /\ leaderboard = << >>
  /\ results_history = << >>
  /\ now = 1
  /\ nStarts = 0
  /\ nAnswers = 0
  /\ sessAcc = [c \in Rooms |-> [k \in QuestionIds \X Users |-> 0]]
  /\ everAcc = [k \in Rooms \X QuestionIds \X Users |-> 0]

\* The question a session is at: QUESTIONS[order[q_idx]].
CurrentQuestion(st) == QUESTIONS[st.order[st.q_index + 1]]

\* QUESTIONS[order[q_idx]] raises IndexError: the bank has no such position.
\* The handler ends there, main() logs the error, and what the handler wrote
\* before stays written.
LookupFails(st) ==
  st.q_index < Len(st.order) /\ st.order[st.q_index + 1] > Len(QUESTIONS)

\* ------------------------------------------------------------ send_question
\* Variant of send_question that returns when the send was not answered ok.
send_question_StopsOnFailure(st, running, paused, res) ==
  IF paused \/ ~running THEN st
  ELSE IF st.q_index >= Len(st.order) THEN st
  ELSE IF ~res.ok THEN st
  ELSE [st EXCEPT !.msg_id = res.message_id,
                  !.start = now,
                  !.last_timer_update = 0,
                  !.answers = {}]

\* Variant of send_question that leaves st["answers"] as it is.
send_question_KeepsAnswers(st, running, paused, res) ==
  IF paused \/ ~running THEN st
  ELSE IF st.q_index >= Len(st.order) THEN st
  ELSE [st EXCEPT !.msg_id = IF res.ok THEN res.message_id ELSE @,
                  !.start = now,
                  !.last_timer_update = 0]

\* The early returns, the send (res is what send_msg returns), msg_id when
\* the send was answered ok, then start = time.time(), last_timer_update = 0
\* and answers = {}.
send_question(st, running, paused, res) ==
  IF paused \/ ~running THEN st
  ELSE IF st.q_index >= Len(st.order) THEN st
  ELSE IF LookupFails(st) THEN st
  ELSE [st EXCEPT !.msg_id = IF res.ok THEN res.message_id ELSE @,
                  !.start = now,
                  !.last_timer_update = 0,
                  !.answers = {}]

\* --------------------------------------------------------------- start_quiz
\* Variant of desired_map with another target for short.
desired_map_ShortTen(mode) ==
  CASE mode = "short" -> 10
    [] mode = "long" -> 15
    [] mode = "full" -> 25
    [] OTHER -> 10

desired_map(mode) ==
  CASE mode = "short" -> 5
    [] mode = "long" -> 15
    [] mode = "full" -> 25
    [] OTHER -> 5

\* Variant of indices_all that takes every question whatever the topic.
indices_all_AnyTopic(topic_arg) == 1 .. Len(QUESTIONS)

\* indices_all: the positions of the questions the topic argument selects
indices_all(topic_arg) ==
  IF topic_arg # NoTopic
  THEN {i \in 1 .. Len(QUESTIONS) : Lower(QUESTIONS[i].topic) = Lower(topic_arg)}
  ELSE 1 .. Len(QUESTIONS)

\* random.shuffle(order); order[:count] -- every outcome of the shuffle
Shuffled(cands, count) ==
  {o \in [1 .. count -> cands] : \A i, j \in 1 .. count : i # j => o[i] # o[j]}

\* count = min(desired, len(indices_all)) and the orders start_quiz can draw
StartOrders(topic_arg, mode) ==
  Shuffled(indices_all(topic_arg),
           Min(desired_map(mode), Cardinality(indices_all(topic_arg))))

\* Variant of InProgress that asks the global flag instead of the chat's entry.
InProgress_ByFlag(chat) == QUIZ_RUNNING

InProgress(chat) ==
  /\ chat \in DOMAIN group_state
  /\ group_state[chat].q_index < Len(group_state[chat].order)

\* Variant of StartOutcome without the is_admin test.
StartOutcome_NoAdminCheck(chat, admin, topic_arg, mode) ==
  IF Len(QUESTIONS) = 0 THEN "NoQuestions"
  ELSE IF InProgress(chat) THEN "SessionAlreadyRunning"
  ELSE IF topic_arg # NoTopic /\ indices_all(topic_arg) = {} THEN "NoQuestionsForTopic"
  ELSE IF Min(desired_map(mode), Cardinality(indices_all(topic_arg))) = 0 THEN "NotEnough"
  ELSE "Started"

\* The checks start_quiz makes before it writes anything, in its order.
StartOutcome(chat, admin, topic_arg, mode) ==
  IF ~admin THEN "NotAuthorized"
  ELSE IF Len(QUESTIONS) = 0 THEN "NoQuestions"
  ELSE IF InProgress(chat) THEN "SessionAlreadyRunning"
  ELSE IF topic_arg # NoTopic /\ indices_all(topic_arg) = {} THEN "NoQuestionsForTopic"
  ELSE IF Min(desired_map(mode), Cardinality(indices_all(topic_arg))) = 0 THEN "NotEnough"
  ELSE "Started"

NewSession(order, topic_arg) ==
  [ order |-> order,
    q_index |-> 0,
    start |-> now,
    answers |-> {},
    user_stats |-> << >>,
    msg_id |-> 0,
    topic |-> IF topic_arg # NoTopic THEN topic_arg ELSE "Mixed",
    last_timer_update |-> 0 ]

\* reply is what the API answers to the send of the first question.
\* Variant of start_quiz that keeps the tallies of the chat's old session.
start_quiz_KeepsTally(chat, admin, topic_arg, mode, reply) ==
  LET res == StartOutcome(chat, admin, topic_arg, mode)
  IN /\ IF res = "Started"
        THEN /\ nStarts < MaxStarts
             /\ \E order \in StartOrders(topic_arg, mode) :
                  group_state' =
                    Put(group_state, chat,
                        send_question(
                          [NewSession(order, topic_arg) EXCEPT
                             !.user_stats =
                               Get(group_state, chat, NewSession(order, topic_arg)).user_stats],
                          TRUE, FALSE, reply))
             /\ QUIZ_RUNNING' = TRUE
             /\ QUIZ_PAUSED' = FALSE
             /\ nStarts' = nStarts + 1
             /\ sessAcc' = [sessAcc EXCEPT ![chat] = [k \in QuestionIds \X Users |-> 0]]
        ELSE UNCHANGED << group_state, QUIZ_RUNNING, QUIZ_PAUSED, nStarts, sessAcc >>
     /\ UNCHANGED << QUESTIONS, QUESTION_TIME, leaderboard, results_history, now, nAnswers, everAcc >>

start_quiz(chat, admin, topic_arg, mode, reply) ==
  LET res == StartOutcome(chat, admin, topic_arg, mode)
  IN /\ IF res = "Started"
        THEN /\ nStarts < MaxStarts
             /\ \E order \in StartOrders(topic_arg, mode) :
                  group_state' =
                    Put(group_state, chat,
                        send_question(NewSession(order, topic_arg), TRUE, FALSE, reply))
             /\ QUIZ_RUNNING' = TRUE
             /\ QUIZ_PAUSED' = FALSE
             /\ nStarts' = nStarts + 1
             /\ sessAcc' = [sessAcc EXCEPT ![chat] = [k \in QuestionIds \X Users |-> 0]]
        ELSE UNCHANGED << group_state, QUIZ_RUNNING, QUIZ_PAUSED, nStarts, sessAcc >>
     /\ UNCHANGED << QUESTIONS, QUESTION_TIME, leaderboard, results_history, now, nAnswers, everAcc >>

\* ------------------------------------------------- quiz_pause / resume / stop
PauseOutcome(admin) ==
  IF ~admin THEN "NotAuthorized"
  ELSE IF ~QUIZ_RUNNING THEN "NoActiveSession"
  ELSE IF QUIZ_PAUSED THEN "AlreadyPaused"
  ELSE "Paused"

quiz_pause(chat, admin) ==
  LET res == PauseOutcome(admin)
  IN /\ QUIZ_PAUSED' = IF res = "Paused" THEN TRUE ELSE QUIZ_PAUSED
     /\ UNCHANGED << QUESTIONS, QUESTION_TIME, QUIZ_RUNNING, group_state, leaderboard,
                     results_history, now, nStarts, nAnswers, sessAcc, everAcc >>

ResumeOutcome(admin) ==
  IF ~admin THEN "NotAuthorized"
  ELSE IF ~QUIZ_PAUSED THEN "NotPaused"
  ELSE "Resumed"

\* Variant of quiz_resume that starts the time of the chat's question anew.
quiz_resume_RestartsClock(chat, admin) ==
  LET res == ResumeOutcome(admin)
  IN /\ QUIZ_PAUSED' = IF res = "Resumed" THEN FALSE ELSE QUIZ_PAUSED
     /\ group_state' = IF res = "Resumed" /\ chat \in DOMAIN group_state
                       THEN [group_state EXCEPT ![chat].start = now]
                       ELSE group_state
     /\ UNCHANGED << QUESTIONS, QUESTION_TIME, QUIZ_RUNNING, leaderboard,
                     results_history, now, nStarts, nAnswers, sessAcc, everAcc >>

quiz_resume(chat, admin) ==
  LET res == ResumeOutcome(admin)
  IN /\ QUIZ_PAUSED' = IF res = "Resumed" THEN FALSE ELSE QUIZ_PAUSED
     /\ UNCHANGED << QUESTIONS, QUESTION_TIME, QUIZ_RUNNING, group_state, leaderboard,
                     results_history, now, nStarts, nAnswers, sessAcc, everAcc >>

\* The checks of quiz_stop, for a given value of the running flag.
StopOutcomeWhen(running, admin) ==
  IF ~admin THEN "NotAuthorized"
  ELSE IF ~running THEN "NoActiveSession"
  ELSE "Stopped"

StopOutcome(admin) == StopOutcomeWhen(QUIZ_RUNNING, admin)

\* group_state, QUIZ_RUNNING and QUIZ_PAUSED when quiz_stop returns
StopState(chat, admin) ==
  IF StopOutcome(admin) = "Stopped" THEN Pop(group_state, chat) ELSE group_state

StopRunning(admin) == IF StopOutcome(admin) = "Stopped" THEN FALSE ELSE QUIZ_RUNNING

StopPaused(admin) == IF StopOutcome(admin) = "Stopped" THEN FALSE ELSE QUIZ_PAUSED

\* Variant of quiz_stop that also drops the board of the chat it stops.
quiz_stop_DropsBoard(chat, admin) ==
  /\ group_state' = StopState(chat, admin)
  /\ QUIZ_RUNNING' = StopRunning(admin)
  /\ QUIZ_PAUSED' = StopPaused(admin)
  /\ leaderboard' = IF StopOutcome(admin) = "Stopped" THEN Pop(leaderboard, chat)
                    ELSE leaderboard
  /\ UNCHANGED << QUESTIONS, QUESTION_TIME, results_history, now,
                  nStarts, nAnswers, sessAcc, everAcc >>

\* Variant of quiz_stop that leaves QUIZ_PAUSED as it is.
quiz_stop_KeepsPaused(chat, admin) ==
  /\ group_state' = StopState(chat, admin)
  /\ QUIZ_RUNNING' = StopRunning(admin)
  /\ UNCHANGED << QUESTIONS, QUESTION_TIME, QUIZ_PAUSED, leaderboard, results_history,
                  now, nStarts, nAnswers, sessAcc, everAcc >>

quiz_stop(chat, admin) ==
  /\ group_state' = StopState(chat, admin)
  /\ QUIZ_RUNNING' = StopRunning(admin)
  /\ QUIZ_PAUSED' = StopPaused(admin)
  /\ UNCHANGED << QUESTIONS, QUESTION_TIME, leaderboard, results_history, now,
                  nStarts, nAnswers, sessAcc, everAcc >>

\* --------------------------------------------------------- handle_resetboard
\* Variant of handle_resetboard that clears the boards of all chats.
handle_resetboard_AllChats(chat, allowed) ==
  /\ leaderboard' = IF allowed THEN << >> ELSE leaderboard
  /\ UNCHANGED << QUESTIONS, QUESTION_TIME, QUIZ_RUNNING, QUIZ_PAUSED, group_state,
                  results_history, now, nStarts, nAnswers, sessAcc, everAcc >>

handle_resetboard(chat, allowed) ==
  /\ leaderboard' = IF allowed THEN Pop(leaderboard, chat) ELSE leaderboard
  /\ UNCHANGED << QUESTIONS, QUESTION_TIME, QUIZ_RUNNING, QUIZ_PAUSED, group_state,
                  results_history, now, nStarts, nAnswers, sessAcc, everAcc >>

\* Variant of TimeOver with the operands of the subtraction exchanged.
TimeOver_Reversed(st) == st.start - now > QUESTION_TIME

\* ------------------------------------------------------------ handle_answer
\* time.time() - st["start"] > QUESTION_TIME
TimeOver(st) == now - st.start > QUESTION_TIME

\* Variant of AnswerOutcome without the look-up in st["answers"].
AnswerOutcome_NoDuplicateCheck(chat, user, wellFormed, qid) ==
  IF chat \notin DOMAIN group_state THEN "NoActiveSession"
  ELSE IF QUIZ_PAUSED THEN "SessionPaused"
  ELSE IF TimeOver(group_state[chat]) THEN "TimeExpired"
  ELSE IF ~wellFormed THEN "Invalid"
  ELSE IF group_state[chat].q_index >= Len(group_state[chat].order) THEN "QuizOver"
  ELSE IF qid # CurrentQuestion(group_state[chat]).id THEN "StaleQuestion"
  ELSE "Accepted"

\* Variant of AnswerOutcome without the comparison of the question ids.
AnswerOutcome_NoStaleCheck(chat, user, wellFormed, qid) ==
  IF chat \notin DOMAIN group_state THEN "NoActiveSession"
  ELSE IF QUIZ_PAUSED THEN "SessionPaused"
  ELSE IF TimeOver(group_state[chat]) THEN "TimeExpired"
  ELSE IF ~wellFormed THEN "Invalid"
  ELSE IF group_state[chat].q_index >= Len(group_state[chat].order) THEN "QuizOver"
  ELSE IF user \in group_state[chat].answers THEN "DuplicateAnswer"
  ELSE "Accepted"

\* The checks handle_answer makes before it writes anything, in its order.
AnswerOutcome(chat, user, wellFormed, qid) ==
  IF chat \notin DOMAIN group_state THEN "NoActiveSession"
  ELSE IF QUIZ_PAUSED THEN "SessionPaused"
  ELSE IF TimeOver(group_state[chat]) THEN "TimeExpired"
  ELSE IF ~wellFormed THEN "Invalid"
  ELSE IF group_state[chat].q_index >= Len(group_state[chat].order) THEN "QuizOver"
  ELSE IF LookupFails(group_state[chat]) THEN "IndexError"
  ELSE IF qid # CurrentQuestion(group_state[chat]).id THEN "StaleQuestion"
  ELSE IF user \in group_state[chat].answers THEN "DuplicateAnswer"
  ELSE "Accepted"

\* Variant of RecordAttempt that does not count a wrong answer.
RecordAttempt_WrongNotCounted(stats, user, is_right) ==
  LET i == IndexOf(stats, user)
      old == IF i = 0
             THEN [uid |-> user, correct |-> 0, wrong |-> 0, attempted |-> 0]
             ELSE stats[i]
      new == [old EXCEPT !.attempted = @ + 1,
                         !.correct = IF is_right THEN @ + 1 ELSE @]
  IN IF i = 0 THEN Append(stats, new) ELSE [stats EXCEPT ![i] = new]

\* u_stats = stats.get(user_id, {0, 0, 0}); the increments; stats[user_id] = u_stats
RecordAttempt(stats, user, is_right) ==
  LET i == IndexOf(stats, user)
      old == IF i = 0
             THEN [uid |-> user, correct |-> 0, wrong |-> 0, attempted |-> 0]
             ELSE stats[i]
      new == [old EXCEPT !.attempted = @ + 1,
                         !.correct = IF is_right THEN @ + 1 ELSE @,
                         !.wrong = IF is_right THEN @ ELSE @ + 1]
  IN IF i = 0 THEN Append(stats, new) ELSE [stats EXCEPT ![i] = new]

\* Variant of AddMark that stores the mark instead of adding it.
AddMark_Overwrite(board, user, is_right) ==
  LET i == IndexOf(board, user)
      new == [uid |-> user, name |-> NameOf(user),
              score |-> IF is_right THEN MARK_CORRECT ELSE MARK_WRONG]
  IN IF i = 0 THEN Append(board, new) ELSE [board EXCEPT ![i] = new]

\* prev = board.get(user_id, {name, score: 0.0}); prev["score"] += mark;
\* prev["name"] = name; board[user_id] = prev
AddMark(board, user, is_right) ==
  LET i == IndexOf(board, user)
      old == IF i = 0 THEN [uid |-> user, name |-> NameOf(user), score |-> 0] ELSE board[i]
      new == [old EXCEPT !.score = @ + (IF is_right THEN MARK_CORRECT ELSE MARK_WRONG),
                         !.name = NameOf(user)]
  IN IF i = 0 THEN Append(board, new) ELSE [board EXCEPT ![i] = new]

\* Variant of Admit that does not note the participant in st["answers"].
Admit_NotNoted(st, user, is_right) ==
  [st EXCEPT !.user_stats = RecordAttempt(@, user, is_right)]

\* Variant of Admit that keeps a tally of right answers only.
Admit_RightOnly(st, user, is_right) ==
  [st EXCEPT !.user_stats = IF is_right THEN RecordAttempt(@, user, is_right) ELSE @,
             !.answers = @ \cup {user}]

\* The session after an accepted answer: the tally and st["answers"][user_id] = True
Admit(st, user, is_right) ==
  [st EXCEPT !.user_stats = RecordAttempt(@, user, is_right),
             !.answers = @ \cup {user}]

\* Variant of AnswerState that records the tally before the duplicate check.
AnswerState_TallyFirst(chat, user, wellFormed, qid, selected) ==
  IF AnswerOutcome(chat, user, wellFormed, qid) \in {"Accepted", "DuplicateAnswer"}
  THEN LET st == group_state[chat]
           is_right == (selected = CurrentQuestion(st).correct)
       IN [group_state EXCEPT ![chat] = Admit(st, user, is_right)]
  ELSE group_state

\* group_state when handle_answer returns
AnswerState(chat, user, wellFormed, qid, selected) ==
  IF AnswerOutcome(chat, user, wellFormed, qid) = "Accepted"
  THEN LET st == group_state[chat]
           is_right == (selected = CurrentQuestion(st).correct)
       IN [group_state EXCEPT ![chat] = Admit(st, user, is_right)]
  ELSE group_state

\* leaderboard when handle_answer returns
AnswerBoard(chat, user, wellFormed, qid, selected) ==
  IF AnswerOutcome(chat, user, wellFormed, qid) = "Accepted"
  THEN LET is_right == (selected = CurrentQuestion(group_state[chat]).correct)
       IN Put(leaderboard, chat,
              AddMark(Get(leaderboard, chat, << >>), user, is_right))
  ELSE leaderboard

handle_answer(chat, user, wellFormed, qid, selected) ==
  /\ group_state' = AnswerState(chat, user, wellFormed, qid, selected)
  /\ leaderboard' = AnswerBoard(chat, user, wellFormed, qid, selected)
  /\ IF AnswerOutcome(chat, user, wellFormed, qid) = "Accepted"
     THEN /\ nAnswers < MaxAnswers
          /\ nAnswers' = nAnswers + 1
          /\ sessAcc' = [sessAcc EXCEPT ![chat][<< qid, user >>] = @ + 1]
          /\ everAcc' = [everAcc EXCEPT ![<< chat, qid, user >>] = @ + 1]
     ELSE UNCHANGED << sessAcc, everAcc, nAnswers >>
  /\ UNCHANGED << QUESTIONS, QUESTION_TIME, QUIZ_RUNNING, QUIZ_PAUSED,
                  results_history, now, nStarts >>

\* ------------------------------------------------------ send_user_summaries
\* Variant of quiz_score that charges MARK_WRONG for every attempt.
quiz_score_PerAttempt(u_stats) ==
  u_stats.correct * MARK_CORRECT + u_stats.attempted * MARK_WRONG

quiz_score(u_stats) == u_stats.correct * MARK_CORRECT + u_stats.wrong * MARK_WRONG

\* name = board[user_id]["name"] if user_id in board else str(user_id)
SummaryName(board, uid) ==
  IF IndexOf(board, uid) # 0 THEN board[IndexOf(board, uid)].name ELSE ToString(uid)

\* records_to_add: one record per entry of user_stats, in its order; board is
\* the chat's board, leaderboard.get(chat_id, {})
records_to_add(st, board) ==
  [i \in 1 .. Len(st.user_stats) |->
     [ user_id |-> st.user_stats[i].uid,
       name |-> SummaryName(board, st.user_stats[i].uid),
       score |-> quiz_score(st.user_stats[i]),
       ts |-> now,
       topic |-> st.topic ]]

\* Variant of finish_question without the q_idx >= len(order) return.
finish_question_NoGuard(st, res) ==
  send_question([st EXCEPT !.q_index = @ + 1], QUIZ_RUNNING, QUIZ_PAUSED, res)

\* ----------------------------------------------------------- finish_question
\* The session after finish_question: q_index += 1, then the next question
\* (res is what the API answers to its send).
finish_question(st, res) ==
  IF st.q_index >= Len(st.order) THEN st
  ELSE IF LookupFails(st) THEN st
  ELSE send_question([st EXCEPT !.q_index = @ + 1], QUIZ_RUNNING, QUIZ_PAUSED, res)

\* Variant of Finalizes without the q_idx >= len(order) return of finish_question.
Finalizes_Again(st) == st.q_index + 1 >= Len(st.order)

\* finish_question reached the end of the order: it calls send_user_summaries
Finalizes(st) == st.q_index < Len(st.order) /\ st.q_index + 1 >= Len(st.order)

\* -------------------------------------------------------------- timeout_check
\* now - start_time >= QUESTION_TIME
TimeUp(st) == now - st.start >= QUESTION_TIME

\* Variant of Due without the comparison of the elapsed time.
Due_NoTimeCheck(chat) ==
  /\ chat \in DOMAIN group_state
  /\ ~(QUIZ_PAUSED \/ ~QUIZ_RUNNING)
  /\ group_state[chat].start # 0

\* Variant of Due that tests only QUIZ_RUNNING, not QUIZ_PAUSED.
Due_IgnoresPause(chat) ==
  /\ chat \in DOMAIN group_state
  /\ QUIZ_RUNNING
  /\ group_state[chat].start # 0
  /\ TimeUp(group_state[chat])

\* The chats timeout_check calls finish_question for.
Due(chat) ==
  /\ chat \in DOMAIN group_state
  /\ ~(QUIZ_PAUSED \/ ~QUIZ_RUNNING)
  /\ group_state[chat].start # 0
  /\ TimeUp(group_state[chat])

\* ------------------------------------------------------ update_timer_for_chat
\* Variant of update_timer_for_chat that also restarts the question's clock.
update_timer_RestartsClock(st, t) ==
  LET remaining == QUESTION_TIME - (t - st.start)
      min_delta == IF remaining > 25 THEN 5 ELSE IF remaining > 10 THEN 3 ELSE 2
  IN IF st.msg_id = 0 \/ st.start = 0 THEN st
     ELSE IF remaining <= 0 THEN st
     ELSE IF st.last_timer_update # 0 /\ t - st.last_timer_update < min_delta THEN st
     ELSE IF st.q_index >= Len(st.order) THEN st
     ELSE [st EXCEPT !.last_timer_update = t, !.start = t]

\* The session after the refresh of the progress bar at time t: the early
\* returns, the edit of the message, then last_timer_update = t.
update_timer_for_chat(st, t) ==
  LET remaining == QUESTION_TIME - (t - st.start)
      min_delta == IF remaining > 25 THEN 5 ELSE IF remaining > 10 THEN 3 ELSE 2
  IN IF st.msg_id = 0 \/ st.start = 0 THEN st
     ELSE IF remaining <= 0 THEN st
     ELSE IF st.last_timer_update # 0 /\ t - st.last_timer_update < min_delta THEN st
     ELSE IF st.q_index >= Len(st.order) THEN st
     ELSE IF LookupFails(st) THEN st
     ELSE [st EXCEPT !.last_timer_update = t]

\* The chats timeout_check looks at: not paused, running, start set.
Ticked(chat) ==
  /\ chat \in DOMAIN group_state
  /\ ~(QUIZ_PAUSED \/ ~QUIZ_RUNNING)
  /\ group_state[chat].start # 0

\* A chat's session when timeout_check returns: the refresh, then the time
\* check on the start read before the refresh (res: the API's answer to the
\* send of the next question).
TickState(chat, res) ==
  LET refreshed == IF Ticked(chat)
                   THEN update_timer_for_chat(group_state[chat], now)
                   ELSE group_state[chat]
  IN IF Due(chat) THEN finish_question(refreshed, res) ELSE refreshed

\* The records timeout_check appends to a chat's history
TickRecords(chat) ==
  IF Due(chat) /\ Finalizes(group_state[chat]) /\ ~LookupFails(group_state[chat])
  THEN records_to_add(group_state[chat], Get(leaderboard, chat, << >>))
  ELSE << >>

\* res is what the API answers to the sends of this pass.
timeout_check(res) ==
  LET ending == {c \in DOMAIN group_state : TickRecords(c) # << >>}
  IN /\ group_state' = [c \in DOMAIN group_state |-> TickState(c, res)]
     /\ results_history' =
          [c \in DOMAIN results_history \cup ending |->
             IF c \in ending
             THEN Get(results_history, c, << >>) \o TickRecords(c)
             ELSE results_history[c]]
     /\ UNCHANGED << QUESTIONS, QUESTION_TIME, QUIZ_RUNNING, QUIZ_PAUSED, leaderboard,
                     now, nStarts, nAnswers, sessAcc, everAcc >>

\* --------------------------------------------------------------------- clock
Advance(d) ==
  /\ now + d <= MaxNow
  /\ now' = now + d
  /\ UNCHANGED << QUESTIONS, QUESTION_TIME, QUIZ_RUNNING, QUIZ_PAUSED, group_state,
                  leaderboard, results_history, nStarts, nAnswers, sessAcc, everAcc >>

\* ---------------------------------------------------------------------- main
Next ==
  \/ \E d \in Deltas : Advance(d)
  \/ timeout_check(Delivered)
  \/ \E r \in Requests, a \in QuizArgs : start_quiz(r[1], r[2], a[1], a[2], Delivered)
  \/ \E r \in Requests : quiz_pause(r[1], r[2])
  \/ \E r \in Requests : quiz_resume(r[1], r[2])
  \/ \E r \in Requests : quiz_stop(r[1], r[2])
  \/ \E r \in Requests : handle_resetboard(r[1], r[2])
  \/ \E cb \in Callbacks : handle_answer(cb[1], cb[2], cb[3], cb[4], cb[5])

Spec == Init /\ [][Next]_vars

\* =================================================================== claims
\* Readers of the state used by the claims below.
Elapsed(c) == now - group_state[c].start

ZeroTally(u) == [uid |-> u, correct |-> 0, wrong |-> 0, attempted |-> 0]

\* user u's tally in a session (zeros when u has none)
TallyOf(st, u) ==
  IF IndexOf(st.user_stats, u) = 0 THEN ZeroTally(u)
  ELSE st.user_stats[IndexOf(st.user_stats, u)]

\* user u's cumulative score in a chat's board (0 when u has no entry)
ScoreOf(lb, c, u) ==
  IF c \notin DOMAIN lb \/ IndexOf(lb[c], u) = 0 THEN 0
  ELSE lb[c][IndexOf(lb[c], u)].score

HasEntry(lb, c, u) == c \in DOMAIN lb /\ IndexOf(lb[c], u) # 0

\* the id of the question chat c is at, 0 when its order is exhausted
CurrentId(c) ==
  IF group_state[c].q_index < Len(group_state[c].order)
  THEN CurrentQuestion(group_state[c]).id
  ELSE 0

\* ----------------------------------------------------------------------- C1
\* C1 as stated: a triple <<chat, question, participant>> is accepted at most
\* once over the whole run, later sessions of the chat included.
C1_AcceptedOnceEver == \A k \in DOMAIN everAcc : everAcc[k] <= 1

\* C1 amended: within one session (from a successful start in the chat to the
\* next one) a triple <<chat, question, participant>> is accepted at most once.
C1_AcceptedOncePerSession ==
  \A c \in Rooms : \A k \in DOMAIN sessAcc[c] : sessAcc[c][k] <= 1

\* The same participant answered the same question in two sessions of a chat.
C1_Witness ==
  \E c \in Rooms, q \in QuestionIds, u \in Users :
    sessAcc[c][<< q, u >>] = 1 /\ everAcc[<< c, q, u >>] = 2

\* ----------------------------------------------------------------------- C2
\* C2: in a run of callbacks that carry the same <<chat, question, participant>>
\* the accepted one leaves the session in a state where every further one is
\* answered DuplicateAnswer, and a callback answered DuplicateAnswer changes
\* neither the tally nor the board, so tally and score change exactly once.
C2_DuplicateChangesNothing ==
  \A cb \in Callbacks :
    AnswerOutcome(cb[1], cb[2], cb[3], cb[4]) = "DuplicateAnswer"
      => /\ AnswerState(cb[1], cb[2], cb[3], cb[4], cb[5]) = group_state
         /\ AnswerBoard(cb[1], cb[2], cb[3], cb[4], cb[5]) = leaderboard

C2_ExactlyOneAccepted ==
  /\ [][\A cb \in Callbacks :
          ( /\ AnswerOutcome(cb[1], cb[2], cb[3], cb[4]) = "Accepted"
            /\ handle_answer(cb[1], cb[2], cb[3], cb[4], cb[5]) )
          => /\ AnswerOutcome(cb[1], cb[2], cb[3], cb[4])' = "DuplicateAnswer"
             /\ TallyOf(group_state'[cb[1]], cb[2]).attempted
                  = TallyOf(group_state[cb[1]], cb[2]).attempted + 1
             /\ ScoreOf(leaderboard', cb[1], cb[2]) # ScoreOf(leaderboard, cb[1], cb[2])
       ]_vars
  /\ []C2_DuplicateChangesNothing

\* A participant has answered the current question and clicks again.
C2_Witness ==
  \E cb \in Callbacks :
    /\ AnswerOutcome(cb[1], cb[2], cb[3], cb[4]) = "DuplicateAnswer"
    /\ sessAcc[cb[1]][<< cb[4], cb[2] >>] = 1

\* ----------------------------------------------------------------------- C3
\* C3: a callback whose question id is not the id of the question the chat is
\* at is never accepted and changes neither tallies nor board; when the session
\* is unpaused, in time and not exhausted, it is answered StaleQuestion.
C3_OnlyCurrentQuestionScored ==
  \A cb \in Callbacks :
    ( cb[3] /\ cb[1] \in DOMAIN group_state /\ cb[4] # CurrentId(cb[1]) )
      => /\ AnswerOutcome(cb[1], cb[2], cb[3], cb[4]) # "Accepted"
         /\ AnswerState(cb[1], cb[2], cb[3], cb[4], cb[5]) = group_state
         /\ AnswerBoard(cb[1], cb[2], cb[3], cb[4], cb[5]) = leaderboard
         /\ ( ( /\ ~QUIZ_PAUSED
                /\ Elapsed(cb[1]) <= QUESTION_TIME
                /\ group_state[cb[1]].q_index < Len(group_state[cb[1]].order) )
              => AnswerOutcome(cb[1], cb[2], cb[3], cb[4]) = "StaleQuestion" )

\* The tick has moved chat 1 to its second question and an answer to the first
\* one arrives.
C3_Witness ==
  /\ 1 \in DOMAIN group_state
  /\ group_state[1].q_index = 1
  /\ Len(group_state[1].order) = 2
  /\ AnswerOutcome(1, 1, TRUE, QUESTIONS[group_state[1].order[1]].id) = "StaleQuestion"

\* ----------------------------------------------------------------------- C4
\* C4: a callback that is not accepted (NoActiveSession, SessionPaused,
\* TimeExpired, StaleQuestion, DuplicateAnswer, or malformed data) leaves the
\* sessions (position, answers, tallies) and the boards as they were.
C4_RejectedChangesNothing ==
  \A cb \in Callbacks :
    AnswerOutcome(cb[1], cb[2], cb[3], cb[4]) # "Accepted"
      => /\ AnswerState(cb[1], cb[2], cb[3], cb[4], cb[5]) = group_state
         /\ AnswerBoard(cb[1], cb[2], cb[3], cb[4], cb[5]) = leaderboard

\* A state with tallies and a board to lose, in which callbacks are refused for
\* three different reasons.
C4_Witness ==
  /\ 1 \in DOMAIN group_state /\ group_state[1].user_stats # << >>
  /\ 1 \in DOMAIN leaderboard
  /\ \E cb \in Callbacks : AnswerOutcome(cb[1], cb[2], cb[3], cb[4]) = "DuplicateAnswer"
  /\ \E cb \in Callbacks : AnswerOutcome(cb[1], cb[2], cb[3], cb[4]) = "StaleQuestion"
  /\ \E cb \in Callbacks : AnswerOutcome(cb[1], cb[2], cb[3], cb[4]) = "NoActiveSession"

\* ----------------------------------------------------------------------- C5
\* C5: an accepted callback adds the participant to the answers of the current
\* question, adds one to the participant's attempted and to exactly one of
\* correct (option = the question's correct option) or wrong, adds MARK_CORRECT
\* or MARK_WRONG to the participant's board entry (created from 0 when absent),
\* and changes nothing of any other participant, chat, position or clock.
C5_AcceptedEffect ==
  \A cb \in Callbacks :
    AnswerOutcome(cb[1], cb[2], cb[3], cb[4]) = "Accepted"
      => LET c == cb[1]
             u == cb[2]
             gs2 == AnswerState(cb[1], cb[2], cb[3], cb[4], cb[5])
             lb2 == AnswerBoard(cb[1], cb[2], cb[3], cb[4], cb[5])
             st == group_state[c]
             st2 == gs2[c]
             right == (cb[5] = CurrentQuestion(st).correct)
             t == TallyOf(st, u)
             t2 == TallyOf(st2, u)
         IN /\ u \notin st.answers
            /\ st2.answers = st.answers \cup {u}
            /\ t2.attempted = t.attempted + 1
            /\ t2.correct = t.correct + (IF right THEN 1 ELSE 0)
            /\ t2.wrong = t.wrong + (IF right THEN 0 ELSE 1)
            /\ HasEntry(lb2, c, u)
            /\ ScoreOf(lb2, c, u)
                 = ScoreOf(leaderboard, c, u) + (IF right THEN MARK_CORRECT ELSE MARK_WRONG)
            /\ \A v \in Users \ {u} :
                 /\ TallyOf(st2, v) = TallyOf(st, v)
                 /\ ScoreOf(lb2, c, v) = ScoreOf(leaderboard, c, v)
                 /\ HasEntry(lb2, c, v) <=> HasEntry(leaderboard, c, v)
            /\ st2.q_index = st.q_index /\ st2.order = st.order /\ st2.start = st.start
            /\ DOMAIN gs2 = DOMAIN group_state
            /\ \A d \in DOMAIN gs2 \ {c} : gs2[d] = group_state[d]
            /\ DOMAIN lb2 = DOMAIN leaderboard \cup {c}
            /\ \A d \in DOMAIN lb2 \ {c} : lb2[d] = leaderboard[d]

\* One participant has a right answer on the board of chat 1 and the other,
\* who answered wrong, is about to be accepted a second time.
C5_Witness ==
  /\ 1 \in DOMAIN leaderboard /\ 1 \in DOMAIN group_state
  /\ \E u, v \in Users :
       /\ u # v
       /\ ScoreOf(leaderboard, 1, u) = MARK_CORRECT
       /\ ScoreOf(leaderboard, 1, v) = MARK_WRONG
       /\ \E cb \in Callbacks :
            /\ cb[1] = 1 /\ cb[2] = v
            /\ AnswerOutcome(cb[1], cb[2], cb[3], cb[4]) = "Accepted"

\* ----------------------------------------------------------------------- C6
\* C6: while more than QUESTION_TIME seconds have passed since the current
\* question of a chat was sent, no callback for that chat is accepted and none
\* changes a tally or a board, whether or not timeout_check has run since.
C6_NoAcceptAfterTime ==
  \A cb \in Callbacks :
    ( cb[1] \in DOMAIN group_state /\ Elapsed(cb[1]) > QUESTION_TIME )
      => /\ AnswerOutcome(cb[1], cb[2], cb[3], cb[4]) # "Accepted"
         /\ AnswerState(cb[1], cb[2], cb[3], cb[4], cb[5]) = group_state
         /\ AnswerBoard(cb[1], cb[2], cb[3], cb[4], cb[5]) = leaderboard

\* The first question of chat 1 is over its time, the tick has not moved the
\* chat on, and an answer to that question from someone new arrives.
C6_Witness ==
  /\ 1 \in DOMAIN group_state
  /\ QUIZ_RUNNING /\ ~QUIZ_PAUSED
  /\ group_state[1].q_index = 0
  /\ Elapsed(1) > QUESTION_TIME
  /\ \E cb \in Callbacks :
       /\ cb[1] = 1 /\ cb[3] /\ cb[4] = CurrentId(1)
       /\ cb[2] \notin group_state[1].answers
       /\ AnswerOutcome(cb[1], cb[2], cb[3], cb[4]) = "TimeExpired"

\* ----------------------------------------------------------------------- C7
\* C7: in every state, for every chat with a session, 0 <= q_index <=
\* len(order), and every participant's attempted is at most q_index + 1.
C7_PositionAndAttemptBounds ==
  \A c \in DOMAIN group_state :
    LET st == group_state[c]
    IN /\ 0 <= st.q_index
       /\ st.q_index <= Len(st.order)
       /\ \A i \in 1 .. Len(st.user_stats) :
            st.user_stats[i].attempted <= st.q_index + 1

\* A participant has answered both questions of a session: attempted is
\* exactly q_index + 1.
C7_Witness ==
  \E c \in DOMAIN group_state :
    /\ group_state[c].q_index = 1
    /\ \E i \in 1 .. Len(group_state[c].user_stats) :
         group_state[c].user_stats[i].attempted = 2

\* ----------------------------------------------------------------------- C8
\* C8: a chat has a session entry exactly when its session is running: once the
\* session is finalized (q_index = len(order)) no entry remains for the chat,
\* and whenever an entry exists the quiz is running.
C8_EntryIffRunning ==
  \A c \in DOMAIN group_state :
    /\ group_state[c].q_index < Len(group_state[c].order)
    /\ QUIZ_RUNNING

\* ----------------------------------------------------------------------- C9
\* C9: while a chat keeps its session, q_index either stays or grows by one,
\* and it grows only in a timeout_check step taken when the question's time is
\* up; the only other change of the entry's q_index is a start_quiz in that
\* chat, which replaces a completed session by a new one at q_index 0.
C9_PositionStepsByTick ==
  [][\A c \in DOMAIN group_state \cap DOMAIN group_state' :
       LET st == group_state[c]
           st2 == group_state'[c]
       IN \/ st2.q_index = st.q_index /\ st2.order = st.order
          \/ /\ st2.q_index = st.q_index + 1
             /\ st2.order = st.order
             /\ st.q_index < Len(st.order)
             /\ Elapsed(c) >= QUESTION_TIME
             /\ \E res \in Replies : timeout_check(res)
          \/ /\ st.q_index = Len(st.order)
             /\ st2.q_index = 0
             /\ \E a \in QuizArgs, res \in Replies : start_quiz(c, TRUE, a[1], a[2], res)
    ]_vars

\* A session of two questions that the tick has moved to its second question.
C9_Witness ==
  \E c \in DOMAIN group_state :
    /\ Len(group_state[c].order) = 2
    /\ group_state[c].q_index = 1
    /\ group_state[c].start > 1

\* ---------------------------------------------------------------------- C10
\* C10: for a chat whose session is running (it has questions left) and not
\* paused, timeout_check moves the chat on exactly when the elapsed time is at
\* least QUESTION_TIME and leaves q_index alone before that; the move that
\* makes q_index equal len(order) writes the session's result records.
C10_TickAdvancesExactlyWhenDue ==
  \A c \in DOMAIN group_state :
    LET st == group_state[c]
    IN ( ~QUIZ_PAUSED /\ st.q_index < Len(st.order) )
         => \A res \in Replies :
              /\ Elapsed(c) >= QUESTION_TIME => TickState(c, res).q_index = st.q_index + 1
              /\ Elapsed(c) < QUESTION_TIME => TickState(c, res).q_index = st.q_index
              /\ ( Elapsed(c) >= QUESTION_TIME /\ st.q_index + 1 = Len(st.order) )
                   => TickRecords(c) = records_to_add(st, Get(leaderboard, c, << >>))

\* ---------------------------------------------------------------------- C11
\* C11: while the quiz is paused, timeout_check leaves every session as it is
\* (no advance, no time-out, no result record), and every callback for a chat
\* that has a session is answered SessionPaused and changes no tally or score.
C11_PausedFreezesSession ==
  QUIZ_PAUSED
    => /\ \A c \in DOMAIN group_state, res \in Replies :
            TickState(c, res) = group_state[c] /\ TickRecords(c) = << >>
       /\ \A cb \in Callbacks :
            cb[1] \in DOMAIN group_state
              => /\ AnswerOutcome(cb[1], cb[2], cb[3], cb[4]) = "SessionPaused"
                 /\ AnswerState(cb[1], cb[2], cb[3], cb[4], cb[5]) = group_state
                 /\ AnswerBoard(cb[1], cb[2], cb[3], cb[4], cb[5]) = leaderboard

\* Chat 1 is paused on a question whose time is up, with an answer from a new
\* participant to that question on offer.
C11_Witness ==
  /\ QUIZ_PAUSED
  /\ 1 \in DOMAIN group_state
  /\ group_state[1].q_index < Len(group_state[1].order)
  /\ TimeUp(group_state[1])
  /\ \E cb \in Callbacks :
       /\ cb[1] = 1 /\ cb[3] /\ cb[4] = CurrentId(1)
       /\ cb[2] \notin group_state[1].answers

\* ---------------------------------------------------------------------- C12
\* A step is the handling of a command or callback that belongs to chat d.
OperationOn(d) ==
  \/ \E a \in QuizArgs, res \in Replies : start_quiz(d, TRUE, a[1], a[2], res)
  \/ quiz_pause(d, TRUE)
  \/ quiz_resume(d, TRUE)
  \/ quiz_stop(d, TRUE)
  \/ handle_resetboard(d, TRUE)
  \/ \E cb \in Callbacks : cb[1] = d /\ handle_answer(cb[1], cb[2], cb[3], cb[4], cb[5])

\* Chat c's entry of a chat-keyed dict is the same before and after the step.
SameEntry(dict, c) ==
  /\ (c \in DOMAIN dict') <=> (c \in DOMAIN dict)
  /\ c \in DOMAIN dict => dict'[c] = dict[c]

\* C12: a command or callback of chat d changes, for no other chat c, the
\* session, the board or the history of c, nor whether timeout_check advances
\* c's session, nor what c's callbacks are answered (paused, accepted, ...).
C12_RoomsIndependent ==
  [][\A d \in Rooms : \A c \in Rooms \ {d} :
       OperationOn(d)
         => /\ SameEntry(group_state, c)
            /\ SameEntry(leaderboard, c)
            /\ SameEntry(results_history, c)
            /\ c \in DOMAIN group_state
                 => /\ Due(c)' = Due(c)
                    /\ \A cb \in Callbacks :
                         cb[1] = c => AnswerOutcome(cb[1], cb[2], cb[3], cb[4])'
                                        = AnswerOutcome(cb[1], cb[2], cb[3], cb[4])
    ]_vars

\* ---------------------------------------------------------------------- C13
\* Largest correct / wrong count for which quiz_score is evaluated.
MaxTally == 5

\* C13: when timeout_check finalizes a session it writes one record per
\* participant of user_stats, in order, whose score is
\* correct * MARK_CORRECT + wrong * MARK_WRONG for that participant's tally
\* (3 correct and 2 wrong give 2.34); questions not attempted add nothing.
C13_SessionScoreFormula ==
  /\ \A c \in DOMAIN group_state :
       ( Due(c) /\ Finalizes(group_state[c]) )
         => LET st == group_state[c]
                recs == TickRecords(c)
            IN /\ Len(recs) = Len(st.user_stats)
               /\ \A i \in 1 .. Len(recs) :
                    /\ recs[i].user_id = st.user_stats[i].uid
                    /\ recs[i].score = st.user_stats[i].correct * MARK_CORRECT
                                         + st.user_stats[i].wrong * MARK_WRONG
  /\ \A k \in 0 .. MaxTally, w \in 0 .. MaxTally :
       quiz_score([uid |-> 1, correct |-> k, wrong |-> w, attempted |-> k + w])
         = k * MARK_CORRECT + w * MARK_WRONG
  /\ quiz_score([uid |-> 1, correct |-> 3, wrong |-> 2, attempted |-> 5]) = 234

\* A finalized session has left the record of a participant with one right
\* and one wrong answer (0.67).
C13_Witness ==
  \E c \in DOMAIN results_history :
    /\ c \in DOMAIN group_state
    /\ group_state[c].q_index = Len(group_state[c].order)
    /\ \E i \in 1 .. Len(results_history[c]) :
         results_history[c][i].score = MARK_CORRECT + MARK_WRONG

\* ---------------------------------------------------------------------- C14
\* A participant's cumulative score less the score of the tally the
\* participant has in the chat's session: the cumulative score the participant
\* had when the session started, as long as the two move together.
ScoreBeforeSession(gs, lb, c, u) == ScoreOf(lb, c, u) - quiz_score(TallyOf(gs[c], u))

\* The step leaves chat c's session in place and changes, for no participant,
\* the difference between cumulative score and session score.
DeltaKept(c) ==
  /\ c \in DOMAIN group_state'
  /\ \A u \in Users :
       ScoreBeforeSession(group_state', leaderboard', c, u)
         = ScoreBeforeSession(group_state, leaderboard, c, u)

\* C14 as stated: from the start of a session to its finalization, whatever
\* is done in the chat, every step other than stopping the session keeps
\* cumulative score - session score of every participant, so that at
\* finalization cumulative score - score at session start = session score.
C14_DeltaIsSessionScore ==
  [][\A c \in DOMAIN group_state :
       ( group_state[c].q_index < Len(group_state[c].order)
         /\ c \in DOMAIN group_state' )
         => DeltaKept(c)
    ]_vars

\* C14 amended: the same, for every step that is not a reset of the chat's
\* board.
C14_DeltaIsSessionScoreUnlessReset ==
  [][\A c \in DOMAIN group_state :
       ( group_state[c].q_index < Len(group_state[c].order)
         /\ c \in DOMAIN group_state' )
         => \/ DeltaKept(c)
            \/ c \in DOMAIN leaderboard /\ handle_resetboard(c, TRUE)
    ]_vars

\* A finalized session in which a participant scored, in a chat where the
\* participant already had the score of one answer from an earlier session.
C14_Witness ==
  \E c \in DOMAIN group_state, u \in Users :
    /\ group_state[c].q_index = Len(group_state[c].order)
    /\ TallyOf(group_state[c], u).attempted >= 1
    /\ ScoreBeforeSession(group_state, leaderboard, c, u) \in {MARK_CORRECT, MARK_WRONG}
    /\ c \in DOMAIN results_history

\* ---------------------------------------------------------------------- C15
\* A tick of a session that is already complete writes no record.
C15_CompletedWritesNothing ==
  \A c \in DOMAIN group_state :
    group_state[c].q_index >= Len(group_state[c].order) => TickRecords(c) = << >>

\* C15: the history only grows at its end: every step keeps each chat's
\* records as a prefix of the chat's new list; records are added only by the
\* timeout_check step that completes the chat's session (q_index reaches
\* len(order)), one per participant of the session's tally; a session that is
\* complete gets no further record from later ticks.
C15_HistoryAppendOnly ==
  /\ [][\A c \in Rooms :
          LET old == Get(results_history, c, << >>)
              new == Get(results_history', c, << >>)
          IN /\ c \in DOMAIN results_history => c \in DOMAIN results_history'
             /\ Len(new) >= Len(old)
             /\ SubSeq(new, 1, Len(old)) = old
             /\ Len(new) > Len(old)
                  => /\ \E res \in Replies : timeout_check(res)
                     /\ c \in DOMAIN group_state
                     /\ group_state[c].q_index + 1 = Len(group_state[c].order)
                     /\ group_state'[c].q_index = Len(group_state[c].order)
                     /\ Len(new) = Len(old) + Len(group_state[c].user_stats)
                     /\ \A i \in 1 .. Len(group_state[c].user_stats) :
                          new[Len(old) + i].user_id = group_state[c].user_stats[i].uid
       ]_vars
  /\ []C15_CompletedWritesNothing

\* A completed session whose records are in the history, at a moment when
\* timeout_check would run for the chat again (running, not paused, time up).
C15_Witness ==
  \E c \in DOMAIN group_state :
    /\ group_state[c].q_index = Len(group_state[c].order)
    /\ c \in DOMAIN results_history
    /\ Len(results_history[c]) >= 1
    /\ Due(c)

\* A chat's session has questions left.
HasRunningSession(c) ==
  c \in DOMAIN group_state /\ group_state[c].q_index < Len(group_state[c].order)

\* ---------------------------------------------------------------------- C16
\* C16: an admin's quiz_stop in a chat whose session is running succeeds and
\* removes the chat's session, writing no history record and leaving the
\* boards alone; in a chat without a session it is answered NoActiveSession
\* and changes nothing.
C16_StopDiscardsOrFails ==
  \A c \in Rooms :
    /\ HasRunningSession(c)
         => /\ StopOutcome(TRUE) = "Stopped"
            /\ c \notin DOMAIN StopState(c, TRUE)
    /\ c \notin DOMAIN group_state
         => /\ StopOutcome(TRUE) = "NoActiveSession"
            /\ StopState(c, TRUE) = group_state
            /\ StopRunning(TRUE) = QUIZ_RUNNING
            /\ StopPaused(TRUE) = QUIZ_PAUSED

\* ---------------------------------------------------------------------- C17
\* C17: in a chat whose session is running, the first of two quiz_stop calls
\* in a row succeeds and leaves no session for the chat, and the second is
\* answered NoActiveSession.
C17_StopTwice ==
  \A c \in Rooms :
    HasRunningSession(c)
      => /\ StopOutcome(TRUE) = "Stopped"
         /\ c \notin DOMAIN StopState(c, TRUE)
         /\ StopOutcomeWhen(StopRunning(TRUE), TRUE) = "NoActiveSession"

\* ---------------------------------------------------------------------- C18
\* C18: in a chat without a running session quiz_pause and quiz_resume are
\* both answered NoActiveSession; with a running session, quiz_pause pauses
\* it or, when it is paused already, only says so, and quiz_resume resumes it
\* or, when it is not paused, only says so.
C18_PauseResumeOutcomes ==
  \A c \in Rooms :
    /\ ~HasRunningSession(c)
         => /\ PauseOutcome(TRUE) = "NoActiveSession"
            /\ ResumeOutcome(TRUE) = "NoActiveSession"
    /\ ( HasRunningSession(c) /\ QUIZ_PAUSED )
         => /\ PauseOutcome(TRUE) = "AlreadyPaused"
            /\ ResumeOutcome(TRUE) = "Resumed"
    /\ ( HasRunningSession(c) /\ ~QUIZ_PAUSED )
         => /\ PauseOutcome(TRUE) = "Paused"
            /\ ResumeOutcome(TRUE) = "NotPaused"

\* ---------------------------------------------------------------------- C19
\* An admin's /quiz is answered "already running" exactly in the chats whose
\* session has questions left.
C19_RefusedIffInProgress ==
  \A c \in Rooms, a \in QuizArgs :
    (StartOutcome(c, TRUE, a[1], a[2]) = "SessionAlreadyRunning") <=> HasRunningSession(c)

\* C19: an admin's /quiz in a chat whose session has q_index < len(order) is
\* answered SessionAlreadyRunning and changes nothing (order, q_index, start,
\* answers, tallies, flags, boards, history); in a chat with no session in
\* progress /quiz is never refused for that reason.
C19_StartRefusedWhileInProgress ==
  /\ [][\/ UNCHANGED engine
         \/ \A c \in Rooms :
              HasRunningSession(c)
                => \A a \in QuizArgs, res \in Replies : ~start_quiz(c, TRUE, a[1], a[2], res)
       ]_vars
  /\ []C19_RefusedIffInProgress

\* Chat 1 is paused in the middle of a session with answers recorded, and
\* chat 2 has no session.
C19_Witness ==
  /\ HasRunningSession(1)
  /\ QUIZ_PAUSED
  /\ group_state[1].user_stats # << >>
  /\ 2 \notin DOMAIN group_state

\* ---------------------------------------------------------------------- C20
\* A bank with more questions than the short target.
LargeBank ==
  << [id |-> 11, topic |-> "history", correct |-> 0],
     [id |-> 12, topic |-> "Polity", correct |-> 1],
     [id |-> 13, topic |-> "Polity", correct |-> 0],
     [id |-> 14, topic |-> "Polity", correct |-> 1],
     [id |-> 15, topic |-> "Polity", correct |-> 0],
     [id |-> 16, topic |-> "Polity", correct |-> 1] >>

\* The bot with either bank loaded, before any command.
InitBank ==
  /\ QUESTIONS \in {InitialQuestions, LargeBank}
  /\ QUESTION_TIME = DEFAULT_QUESTION_TIME
  /\ QUIZ_RUNNING = FALSE
  /\ QUIZ_PAUSED = FALSE
  /\ group_state = << >>
  /\ leaderboard = << >>
  /\ results_history = << >>
  /\ now = 1
  /\ nStarts = 0
  /\ nAnswers = 0
  /\ sessAcc = [c \in Rooms |-> [k \in QuestionIds \X Users |-> 0]]
  /\ everAcc = [k \in Rooms \X QuestionIds \X Users |-> 0]

\* The chats in which quizzes are started and stopped.
BankRooms == {1}

NextBank ==
  \/ \E c \in BankRooms, t \in QuizTexts :
       start_quiz(c, TRUE, parse_quiz_args(t)[1], parse_quiz_args(t)[2], Delivered)
  \/ \E c \in BankRooms : quiz_stop(c, TRUE)

SpecBank == InitBank /\ [][NextBank]_vars

\* The targets the claim gives.
C20_Target(mode) ==
  CASE mode = "short" -> 5
    [] mode = "long" -> 15
    [] mode = "full" -> 25

C21_OrderOfDistinctCandidates ==
  /\ \A t \in QuizTexts, c \in BankRooms :
       LET a == parse_quiz_args(t)
       IN StartOutcome(c, TRUE, a[1], a[2]) = "Started"
            => \A o \in StartOrders(a[1], a[2]) :
                 /\ \A i \in 1 .. Len(o) : o[i] \in 1 .. Len(QUESTIONS)
                 /\ \A i, j \in 1 .. Len(o) :
                      i # j => /\ o[i] # o[j]
                               /\ QUESTIONS[o[i]].id # QUESTIONS[o[j]].id
                 /\ a[1] # NoTopic
                      => \A i \in 1 .. Len(o) :
                           Lower(QUESTIONS[o[i]].topic) = Lower(a[1])
  /\ \A c \in DOMAIN group_state :
       LET st == group_state[c]
       IN /\ \A i, j \in 1 .. Len(st.order) : i # j => st.order[i] # st.order[j]
          /\ \A i \in 1 .. Len(st.order) :
               /\ st.order[i] \in 1 .. Len(QUESTIONS)
               /\ st.topic # "Mixed"
                    => Lower(QUESTIONS[st.order[i]].topic) = Lower(st.topic)

\* With six questions in the bank, of which one is about history, the quiz
\* started by "/quiz History long" has that question alone.
C21_Witness ==
  /\ Len(QUESTIONS) = 6
  /\ 1 \in DOMAIN group_state
  /\ group_state[1].topic = "History"
  /\ group_state[1].order = << 1 >>

\* ============================================ the bot started on saved files
\* time.time() when the bot is started on a leaderboard.json and a
\* results.json of earlier runs (more than 31 days after the epoch).
Startup == 3000000

\* Seconds of a day, as build_time_leaderboard counts them.
DaySeconds == 86400

\* Number of participants in the largest saved history.
MaxLoaded == 21

BoardEntry(u, n, s) == [uid |-> u, name |-> n, score |-> s]

HistoryRecord(u, n, s, t) ==
  [user_id |-> u, name |-> n, score |-> s, ts |-> t, topic |-> "Mixed"]

\* leaderboard after load_leaderboard_from_file: the boards of two chats, the
\* first with two pairs of equal scores; or a chat with an empty board.
SavedBoard ==
  << BoardEntry(3, "Meera", 67), BoardEntry(1, "Asha", 100),
     BoardEntry(4, "Zoya", 67), BoardEntry(2, "Ravi", 100) >>

TwoBoards ==
  [c \in {1, 2} |-> IF c = 1 THEN SavedBoard ELSE << BoardEntry(1, "Asha", -33) >>]

EmptyBoard == [c \in {1} |-> << >>]

\* The records of chat 1 after load_results_history_from_file: one record
\* older than a month; records that are all older than a day; records on both
\* sides of every window, two of them of the same participant under different
\* names; one record each of MaxLoaded participants.
StaleHistory ==
  << HistoryRecord(2, "Ravi", 67, Startup - 31 * DaySeconds) >>

OldHistory ==
  << HistoryRecord(1, "Asha", 234, Startup - 90000),
     HistoryRecord(2, "Ravi", 67, Startup - 8 * DaySeconds) >>

MixedHistory ==
  << HistoryRecord(2, "Ravi S", -33, Startup - 31 * DaySeconds),
     HistoryRecord(1, "Asha K", 100, Startup - 90000),
     HistoryRecord(3, "Meera", 67, Startup - DaySeconds),
     HistoryRecord(2, "Ravi", 67, Startup - 3600),
     HistoryRecord(1, "Asha", 134, Startup - 3600),
     HistoryRecord(4, "Zoya", 67, Startup - 60) >>

ManyHistory ==
  [i \in 1 .. MaxLoaded |->
     HistoryRecord(i, ToString(i), 100 * (i % 4), Startup - 3600)]

\* What the two loads find at start-up: no file, or boards and records.
SavedFiles ==
  { [board |-> << >>, history |-> << >>],
    [board |-> << >>, history |-> [c \in {1} |-> StaleHistory]],
    [board |-> EmptyBoard, history |-> [c \in {1} |-> OldHistory]],
    [board |-> TwoBoards, history |-> [c \in {1} |-> MixedHistory]],
    [board |-> TwoBoards, history |-> [c \in {1} |-> ManyHistory]] }

\* The state after the loads of the start-up code, before main() polls.
InitLoaded ==
  /\ QUESTIONS \in {<< >>, InitialQuestions}
  /\ QUESTION_TIME = DEFAULT_QUESTION_TIME
  /\ QUIZ_RUNNING = FALSE
  /\ QUIZ_PAUSED = FALSE
  /\ group_state = << >>
  /\ \E saved \in SavedFiles :
       /\ leaderboard = saved.board
       /\ results_history = saved.history
  /\ now = Startup
  /\ nStarts = 0
  /\ nAnswers = 0
  /\ sessAcc = [c \in Rooms |-> [k \in QuestionIds \X Users |-> 0]]
  /\ everAcc = [k \in Rooms \X QuestionIds \X Users |-> 0]

\* Time passes between two handler calls, up to MaxNow - 1 seconds after the
\* start.
Wait(d) ==
  /\ now + d - Startup < MaxNow
  /\ now' = now + d
  /\ UNCHANGED << QUESTIONS, QUESTION_TIME, QUIZ_RUNNING, QUIZ_PAUSED, group_state,
                  leaderboard, results_history, nStarts, nAnswers, sessAcc, everAcc >>

\* Commands and callbacks of chat 1.
NextLoaded ==
  \/ \E d \in Deltas : Wait(d)
  \/ timeout_check(Delivered)
  \/ \E admin \in BOOLEAN, a \in QuizArgs : start_quiz(1, admin, a[1], a[2], Delivered)
  \/ \E allowed \in BOOLEAN : handle_resetboard(1, allowed)
  \/ \E cb \in Callbacks : cb[1] = 1 /\ handle_answer(cb[1], cb[2], cb[3], cb[4], cb[5])

SpecLoaded == InitLoaded /\ [][NextLoaded]_vars

\* ---------------------------------------------------------------------- C22
\* No question of the bank has the topic named, whatever the case of letters.
NoQuestionAbout(topic_arg) ==
  topic_arg # NoTopic
    /\ \A i \in 1 .. Len(QUESTIONS) : Lower(QUESTIONS[i].topic) # Lower(topic_arg)

\* What /quiz answers in the three cases: not an admin; an admin and an empty
\* bank; an admin, a bank with questions, no session in progress and a topic
\* no question has.
C22_FailureNamed ==
  \A admin \in BOOLEAN, a \in QuizArgs :
    /\ ~admin => StartOutcome(1, admin, a[1], a[2]) = "NotAuthorized"
    /\ ( admin /\ Len(QUESTIONS) = 0 )
         => StartOutcome(1, admin, a[1], a[2]) = "NoQuestions"
    /\ ( admin /\ Len(QUESTIONS) # 0 /\ ~HasRunningSession(1) /\ NoQuestionAbout(a[1]) )
         => StartOutcome(1, admin, a[1], a[2]) = "NoQuestionsForTopic"

\* C22: a /quiz of someone who is not an admin, a /quiz while the bank is
\* empty and a /quiz that names a topic no question has are answered
\* NotAuthorized, "no questions" and NoQuestionsForTopic, and the step creates
\* no session and changes neither a session there is, nor QUIZ_RUNNING,
\* QUIZ_PAUSED, the boards or the history.
C22_FailedStartChangesNothing ==
  /\ [][\A admin \in BOOLEAN, a \in QuizArgs, res \in Replies :
          ( ( ~admin \/ Len(QUESTIONS) = 0 \/ NoQuestionAbout(a[1]) )
            /\ start_quiz(1, admin, a[1], a[2], res) )
            => UNCHANGED engine
       ]_vars
  /\ []C22_FailureNamed

\* After a session that was completed with answers, with flags, boards and
\* history to lose, an admin's "/quiz Maths" is answered NoQuestionsForTopic.
C22_Witness ==
  /\ 1 \in DOMAIN group_state
  /\ group_state[1].q_index = Len(group_state[1].order)
  /\ QUIZ_RUNNING
  /\ 1 \in DOMAIN leaderboard /\ leaderboard[1] # << >>
  /\ 1 \in DOMAIN results_history /\ Len(results_history[1]) > MaxLoaded
  /\ StartOutcome(1, TRUE, "Maths", "short") = "NoQuestionsForTopic"

\* ---------------------------------------------------------------------- C23
\* timeout_check moves a session that is due and not at its last question to
\* the next question with start = now and no answers, and keeps order and
\* tallies, whatever the API answers to the sends.
C23_NextQuestionEntered ==
  \A c \in DOMAIN group_state, res \in Replies :
    LET st == group_state[c]
    IN ( Due(c) /\ st.q_index + 1 < Len(st.order) )
         => /\ TickState(c, res).q_index = st.q_index + 1
            /\ TickState(c, res).start = now
            /\ TickState(c, res).answers = {}
            /\ TickState(c, res).order = st.order
            /\ TickState(c, res).user_stats = st.user_stats

\* C23: the step of a /quiz that starts a session leaves the chat with a
\* session at q_index 0 with an empty tally, start = now and no answers, and
\* QUIZ_RUNNING true and QUIZ_PAUSED false; every move of timeout_check to a
\* further question sets start = now and empties the answers.
C23_SessionCreatedAndQuestionEntered ==
  /\ [][\A c \in Rooms :
          ( nStarts' = nStarts + 1
            /\ \E a \in QuizArgs, res \in Replies : start_quiz(c, TRUE, a[1], a[2], res) )
            => /\ c \in DOMAIN group_state'
               /\ group_state'[c].q_index = 0
               /\ group_state'[c].user_stats = << >>
               /\ group_state'[c].start = now'
               /\ group_state'[c].answers = {}
               /\ Len(group_state'[c].order) >= 1
               /\ QUIZ_RUNNING' /\ ~QUIZ_PAUSED'
       ]_vars
  /\ []C23_NextQuestionEntered

\* A session at its second question, entered at the present time, with no
\* answer noted although a participant answered the first question.
C23_Witness ==
  \E c \in DOMAIN group_state :
    /\ group_state[c].q_index = 1
    /\ Len(group_state[c].order) = 2
    /\ group_state[c].start = now
    /\ group_state[c].answers = {}
    /\ group_state[c].user_stats # << >>

\* ================================================= one chat, watched closely
\* Clock increments between two passes of the polling loop.
TimerDeltas == {3, 42}

\* The quizzes of chat 1 with participant 1 choosing the first option, the
\* clock moving in small steps and the API answering or not.
NextTimer ==
  \/ \E d \in TimerDeltas : Advance(d)
  \/ \E res \in Replies : timeout_check(res)
  \/ \E res \in Replies : start_quiz(1, TRUE, NoTopic, "short", res)
  \/ \E cb \in Callbacks :
       cb[1] = 1 /\ cb[2] = 1 /\ cb[5] = 0
         /\ handle_answer(cb[1], cb[2], cb[3], cb[4], cb[5])

SpecTimer == Init /\ [][NextTimer]_vars

\* ---------------------------------------------------------------------- C24
\* A session with the time of its last refresh put back to what it was.
SameButRefresh(st2, st) == [st2 EXCEPT !.last_timer_update = st.last_timer_update] = st

\* The refresh changes nothing of a session but last_timer_update, and
\* nothing at all once the question's time is up.
C24_RefreshKeepsSession ==
  \A c \in DOMAIN group_state :
    /\ SameButRefresh(update_timer_for_chat(group_state[c], now), group_state[c])
    /\ TimeUp(group_state[c]) => update_timer_for_chat(group_state[c], now) = group_state[c]

\* C24: the refresh of the progress bar that timeout_check makes changes
\* neither order, q_index, start, answers nor tallies of a session; a pass of
\* timeout_check over a chat whose question is not over leaves the chat's
\* session as it was but for the time of the last refresh, and leaves the
\* boards and the history alone.
C24_RefreshIsNoTransition ==
  /\ [][\A res \in Replies :
          timeout_check(res)
            => \A c \in DOMAIN group_state :
                 ~Due(c)
                   => /\ SameButRefresh(group_state'[c], group_state[c])
                      /\ leaderboard' = leaderboard
                      /\ SameEntry(results_history, c)
       ]_vars
  /\ []C24_RefreshKeepsSession

\* A question that was answered and whose progress bar was refreshed after
\* the question was sent, at a time when the next refresh is not yet allowed.
C24_Witness ==
  /\ 1 \in DOMAIN group_state
  /\ group_state[1].q_index < Len(group_state[1].order)
  /\ group_state[1].answers # {}
  /\ group_state[1].last_timer_update > group_state[1].start
  /\ now - group_state[1].last_timer_update = 3
  /\ update_timer_for_chat(group_state[1], now) = group_state[1]
  /\ ~TimeUp(group_state[1])

\* ---------------------------------------------------------------------- C25
\* A quiz_stop that succeeds leaves no session for its chat, and for a chat
\* without a session every callback is answered NoActiveSession and changes
\* neither sessions nor boards.
C25_AbsentSessionRefuses ==
  \A c \in Rooms :
    /\ StopOutcome(TRUE) = "Stopped" => c \notin DOMAIN StopState(c, TRUE)
    /\ c \notin DOMAIN group_state
         => \A cb \in Callbacks :
              cb[1] = c
                => /\ AnswerOutcome(cb[1], cb[2], cb[3], cb[4]) = "NoActiveSession"
                   /\ AnswerState(cb[1], cb[2], cb[3], cb[4], cb[5]) = group_state
                   /\ AnswerBoard(cb[1], cb[2], cb[3], cb[4], cb[5]) = leaderboard

\* C25: once quiz_stop has removed a chat's session, a pass of timeout_check
\* creates no session for the chat and changes neither its board nor its
\* history, and a callback of the chat is answered NoActiveSession and
\* changes nothing.
C25_StoppedSessionIgnored ==
  /\ [][\A c \in Rooms, res \in Replies :
          ( c \notin DOMAIN group_state /\ timeout_check(res) )
            => /\ c \notin DOMAIN group_state'
               /\ SameEntry(leaderboard, c)
               /\ SameEntry(results_history, c)
       ]_vars
  /\ []C25_AbsentSessionRefuses

\* Chat 1 has no session although one was started there and an answer was
\* accepted in it (quiz_stop removed it); an answer of chat 1 is on offer and
\* timeout_check has a question to finish in chat 2.
C25_Witness ==
  /\ 1 \notin DOMAIN group_state
  /\ \E k \in DOMAIN sessAcc[1] : sessAcc[1][k] = 1
  /\ 1 \in DOMAIN leaderboard
  /\ Due(2)

\* ---------------------------------------------------------------------- C26
\* A session without the id of the message that shows its question.
WithoutMessage(st) == [st EXCEPT !.msg_id = 0]

\* What a pass of timeout_check makes of a chat's session does not depend on
\* the API's answer to the sends, but for the message id kept.
C26_SameWhateverTheReply ==
  \A c \in DOMAIN group_state, res \in Replies :
    /\ WithoutMessage(TickState(c, res)) = WithoutMessage(TickState(c, Delivered))
    /\ WithoutMessage(send_question(group_state[c], TRUE, FALSE, res))
         = WithoutMessage(send_question(group_state[c], TRUE, FALSE, Delivered))

\* C26: a send that fails loses nothing: a pass of timeout_check leaves
\* every session (order, q_index, start, answers, tallies), the boards and
\* the history exactly as the pass with all sends answered would, the records
\* of a session that ends included, and no step takes anything away from a
\* tally, a board or the history because a send failed.
C26_TransportFailureKeepsState ==
  /\ [][\A res \in Replies :
          timeout_check(res)
            => /\ DOMAIN group_state' = DOMAIN group_state
               /\ \A c \in DOMAIN group_state :
                    /\ WithoutMessage(group_state'[c])
                         = WithoutMessage(TickState(c, Delivered))
                    /\ group_state'[c].user_stats = group_state[c].user_stats
                    /\ Get(results_history', c, << >>)
                         = Get(results_history, c, << >>) \o TickRecords(c)
               /\ leaderboard' = leaderboard
       ]_vars
  /\ []C26_SameWhateverTheReply

\* No send of a completed session was answered, and the session's answers are
\* in the chat's board and its records in the history.
C26_Witness ==
  /\ 1 \in DOMAIN group_state
  /\ group_state[1].msg_id = 0
  /\ group_state[1].q_index = Len(group_state[1].order)
  /\ group_state[1].user_stats # << >>
  /\ 1 \in DOMAIN leaderboard
  /\ 1 \in DOMAIN results_history

\* ------------------------------------------------------------- leaderboards
\* Variant of InsertByScore that puts an item before the items of its score.
InsertByScore_TiesFirst(items, e) ==
  LET k == Cardinality({i \in 1 .. Len(items) : items[i].score > e.score})
  IN SubSeq(items, 1, k) \o << e >> \o SubSeq(items, k + 1, Len(items))

\* One more item in a list that is sorted by score, highest first: it goes
\* behind the items of its score (sorted() is stable, also with reverse=True).
InsertByScore(items, e) ==
  LET k == Cardinality({i \in 1 .. Len(items) : items[i].score >= e.score})
  IN SubSeq(items, 1, k) \o << e >> \o SubSeq(items, k + 1, Len(items))

\* sorted(items, key=lambda x: x["score"], reverse=True)
RECURSIVE sorted_by_score(_)
sorted_by_score(items) ==
  IF items = << >> THEN << >>
  ELSE InsertByScore(sorted_by_score(SubSeq(items, 1, Len(items) - 1)),
                     items[Len(items)])

\* The lines "rank. name - score" of a ranking.
RankLines(items) ==
  [i \in 1 .. Len(items) |-> [rank |-> i, name |-> items[i].name, score |-> items[i].score]]

\* sorted_board of send_leaderboard; empty where the code sends the notice
\* that there is no score yet.
sorted_board(chat) ==
  LET board == Get(leaderboard, chat, << >>)
  IN IF board = << >> THEN << >> ELSE sorted_by_score(board)

\* The lines of the message that send_leaderboard sends.
send_leaderboard(chat) == RankLines(sorted_board(chat))

\* ---------------------------------------------------------------------- C27
\* The ranking of a chat is its board in another order: every entry once,
\* scores never rising, equal scores in the order of the board, and one line
\* per entry with its name and score.
C27_RankingOfBoard ==
  \A c \in Rooms :
    LET board == Get(leaderboard, c, << >>)
        items == sorted_board(c)
        lines == send_leaderboard(c)
    IN /\ Len(items) = Len(board)
       /\ \A i \in 1 .. Len(board) : \E j \in 1 .. Len(items) : items[j] = board[i]
       /\ \A i, j \in 1 .. Len(items) :
            i < j => /\ items[i].score >= items[j].score
                     /\ items[i].score = items[j].score
                          => IndexOf(board, items[i].uid) < IndexOf(board, items[j].uid)
       /\ Len(lines) = Len(items)
       /\ \A i \in 1 .. Len(lines) :
            lines[i] = [rank |-> i, name |-> items[i].name, score |-> items[i].score]

\* The order of a board is the order of first insertion: a step that keeps a
\* chat's board keeps the place of every participant in it.
C27_BoardKeepsInsertionOrder ==
  \A c \in DOMAIN leaderboard \cap DOMAIN leaderboard' :
    /\ Len(leaderboard'[c]) >= Len(leaderboard[c])
    /\ \A i \in 1 .. Len(leaderboard[c]) : leaderboard'[c][i].uid = leaderboard[c][i].uid

\* C27: send_leaderboard lists every entry of the chat's board, highest score
\* first, entries of equal score in the order in which their participants
\* were first put on the board.
C27_CumulativeRanking ==
  /\ [][C27_BoardKeepsInsertionOrder]_vars
  /\ []C27_RankingOfBoard

\* After an answer, the ranking of chat 1 differs from the order of the board
\* and two participants with the same score follow one another in it.
C27_Witness ==
  /\ nAnswers > 0
  /\ 1 \in DOMAIN leaderboard
  /\ sorted_board(1) # leaderboard[1]
  /\ \E i \in 1 .. Len(sorted_board(1)) - 1 :
       /\ sorted_board(1)[i].score = sorted_board(1)[i + 1].score
       /\ sorted_board(1)[i].uid \in Users

\* The rankings over a window of days. The days argument is a sequence of at
\* most one number: << >> is None, and the three commands pass 1, 7 and 30.
TopN == 20
Windows == {<< >>, << 1 >>, << 7 >>, << 30 >>}

\* Variant of Skipped that also skips the record written exactly at the cutoff.
Skipped_AtCutoff(rec, days) ==
  days # << >> /\ rec.ts <= now - days[1] * DaySeconds

\* The record is older than the cutoff (there is none when days is None).
Skipped(rec, days) ==
  days # << >> /\ rec.ts < now - days[1] * DaySeconds

\* One pass of the loop over hist that builds agg: the record is skipped, or
\* it opens the participant's entry, or it adds to it and renames it.
count_record(agg, rec, days) ==
  LET name == IF rec.name = "" THEN ToString(rec.user_id) ELSE rec.name
      i == IndexOf(agg, rec.user_id)
  IN IF Skipped(rec, days) THEN agg
     ELSE IF i = 0
       THEN Append(agg, [uid |-> rec.user_id, name |-> name, score |-> rec.score])
     ELSE [agg EXCEPT ![i] = [@ EXCEPT !.score = @ + rec.score, !.name = name]]

\* agg after the loop, in the order of first inclusion.
RECURSIVE aggregate(_, _)
aggregate(hist, days) ==
  IF hist = << >> THEN << >>
  ELSE count_record(aggregate(SubSeq(hist, 1, Len(hist) - 1), days), hist[Len(hist)], days)

\* Variant of build_time_leaderboard that has one text for every empty result.
build_time_leaderboard_OneEmptyText(chat, days) ==
  LET agg == aggregate(Get(results_history, chat, << >>), days)
      sorted_users == sorted_by_score(agg)
  IN IF agg = << >> THEN [kind |-> "NoHistory", lines |-> << >>]
     ELSE [kind |-> "Ranking",
           lines |-> RankLines(SubSeq(sorted_users, 1, Min(TopN, Len(sorted_users))))]

\* What build_time_leaderboard returns: which of its texts, and the lines of
\* the ranking.
build_time_leaderboard(chat, days) ==
  LET hist == Get(results_history, chat, << >>)
      agg == aggregate(hist, days)
      sorted_users == sorted_by_score(agg)
  IN IF hist = << >> THEN [kind |-> "NoHistory", lines |-> << >>]
     ELSE IF agg = << >>
       THEN [kind |-> IF days = << 1 >> THEN "NoneToday"
                      ELSE IF days = << 7 >> THEN "NoneWeek"
                      ELSE IF days = << 30 >> THEN "NoneMonth"
                      ELSE "NoData",
             lines |-> << >>]
     ELSE [kind |-> "Ranking",
           lines |-> RankLines(SubSeq(sorted_users, 1, Min(TopN, Len(sorted_users))))]

\* ---------------------------------------------------------------------- C28
\* The record was written at most days days ago; every record when days is None.
InWindow(rec, days) == days = << >> \/ now - rec.ts <= days[1] * DaySeconds

\* The sum of the scores of the participant's records in the window.
RECURSIVE WindowScore(_, _, _)
WindowScore(hist, uid, days) ==
  IF hist = << >> THEN 0
  ELSE WindowScore(SubSeq(hist, 1, Len(hist) - 1), uid, days)
         + (IF hist[Len(hist)].user_id = uid /\ InWindow(hist[Len(hist)], days)
            THEN hist[Len(hist)].score ELSE 0)

\* The participant's records in the window.
WindowRecords(hist, uid, days) ==
  {i \in 1 .. Len(hist) : hist[i].user_id = uid /\ InWindow(hist[i], days)}

\* hist without its i-th record.
Without(hist, i) == [j \in 1 .. Len(hist) - 1 |-> IF j < i THEN hist[j] ELSE hist[j + 1]]

\* agg has one entry per participant with a record in the window, with the
\* sum of the scores and the last name of those records; ranked is agg by
\* score, highest first; lines are the first 20 of ranked.
RanksWindow(hist, days, agg, ranked, lines) ==
  /\ \A i \in 1 .. Len(hist) :
       IndexOf(agg, hist[i].user_id) # 0
         <=> WindowRecords(hist, hist[i].user_id, days) # {}
  /\ \A k \in 1 .. Len(agg) :
       /\ \A l \in 1 .. Len(agg) : agg[l].uid = agg[k].uid => l = k
       /\ agg[k].score = WindowScore(hist, agg[k].uid, days)
       /\ LET last == CHOOSE i \in WindowRecords(hist, agg[k].uid, days) :
                        \A j \in WindowRecords(hist, agg[k].uid, days) : j <= i
          IN agg[k].name = IF hist[last].name = "" THEN ToString(agg[k].uid)
                           ELSE hist[last].name
  /\ Len(ranked) = Len(agg)
  /\ \A k \in 1 .. Len(agg) : \E l \in 1 .. Len(ranked) : ranked[l] = agg[k]
  /\ \A k \in 1 .. Len(ranked) - 1 : ranked[k].score >= ranked[k + 1].score
  /\ Len(lines) = Min(TopN, Len(ranked))
  /\ \A k \in 1 .. Len(lines) :
       lines[k] = [rank |-> k, name |-> ranked[k].name, score |-> ranked[k].score]

\* With days = 1, a record 90000 seconds old adds nothing to agg, and a
\* record 3600 seconds old adds its participant and its score.
DayExamples(hist, agg) ==
  \A i \in 1 .. Len(hist) :
    /\ now - hist[i].ts = 90000 => agg = aggregate(Without(hist, i), << 1 >>)
    /\ now - hist[i].ts = 3600
         => /\ IndexOf(agg, hist[i].user_id) # 0
            /\ hist[i].score # 0 => agg # aggregate(Without(hist, i), << 1 >>)

\* C28: build_time_leaderboard counts exactly the records of the chat not
\* older than days * 86400 seconds (all of them when days is None), gives each
\* participant the sum of the scores and the name of the last one of their
\* counted records, ranks by that sum, highest first, and shows the first 20;
\* with days = 1 a record 90000 seconds old is not counted and a record 3600
\* seconds old is.
C28_WindowedRanking ==
  \A c \in DOMAIN results_history :
    /\ \A days \in Windows :
         RanksWindow(results_history[c], days,
                     aggregate(results_history[c], days),
                     sorted_by_score(aggregate(results_history[c], days)),
                     build_time_leaderboard(c, days).lines)
    /\ DayExamples(results_history[c], aggregate(results_history[c], << 1 >>))

\* A session of chat 1 has ended on a history of MaxLoaded participants: the
\* ranking of the day is cut to 20 lines, and a participant of the session
\* has two records in it.
C28_Witness ==
  /\ 1 \in DOMAIN results_history
  /\ Len(results_history[1]) > MaxLoaded
  /\ Len(aggregate(results_history[1], << 1 >>)) = MaxLoaded
  /\ Len(build_time_leaderboard(1, << 1 >>).lines) = TopN
  /\ \E u \in Users : Cardinality(WindowRecords(results_history[1], u, << 1 >>)) = 2

\* ---------------------------------------------------------------------- C29
\* The texts that build_time_leaderboard returns when nothing is in the window.
NoneInWindow == {"NoneToday", "NoneWeek", "NoneMonth", "NoData"}

\* C29: build_time_leaderboard answers "nobody has taken a quiz yet" when the
\* chat has no record at all, another text ("nobody today", "nobody in the
\* last 7 days", "nobody in the last 30 days") when the chat has records but
\* none in the window, and a ranking, which is never empty, exactly when a
\* record of the chat is in the window.
C29_EmptyResultsDistinguished ==
  \A c \in Rooms, days \in Windows :
    LET hist == Get(results_history, c, << >>)
        inside == {i \in 1 .. Len(hist) : InWindow(hist[i], days)}
        res == build_time_leaderboard(c, days)
    IN /\ res.kind = "NoHistory" <=> hist = << >>
       /\ res.kind \in NoneInWindow <=> hist # << >> /\ inside = {}
       /\ res.kind = "Ranking" <=> inside # {}
       /\ res.kind = "Ranking" <=> res.lines # << >>
       /\ "NoHistory" \notin NoneInWindow

\* In one state chat 1, with a session started and its only record older
\* than a month, gets "nobody today", "nobody in the last 7 days" and "nobody
\* in the last 30 days" and a ranking over all records, and chat 2 gets
\* "nobody has taken a quiz yet".
C29_Witness ==
  /\ 1 \in DOMAIN group_state
  /\ build_time_leaderboard(1, << 1 >>).kind = "NoneToday"
  /\ build_time_leaderboard(1, << 7 >>).kind = "NoneWeek"
  /\ build_time_leaderboard(1, << 30 >>).kind = "NoneMonth"
  /\ build_time_leaderboard(1, << >>).kind = "Ranking"
  /\ build_time_leaderboard(2, << 1 >>).kind = "NoHistory"

\* ---------------------------------------------------------------------- C30
\* C30: /resetboard by a permitted sender removes the chat's board, so that
\* send_leaderboard called next has no score to list, and leaves the chat's
\* records and session, the flags and the board of every other chat as they
\* were.
C30_ResetClearsOneBoard ==
  [][\A c \in Rooms :
       handle_resetboard(c, TRUE)
         => /\ c \notin DOMAIN leaderboard'
            /\ send_leaderboard(c)' = << >>
            /\ results_history' = results_history
            /\ group_state' = group_state
            /\ QUIZ_RUNNING' = QUIZ_RUNNING /\ QUIZ_PAUSED' = QUIZ_PAUSED
            /\ \A d \in Rooms \ {c} :
                 /\ d \in DOMAIN leaderboard' <=> d \in DOMAIN leaderboard
                 /\ send_leaderboard(d)' = send_leaderboard(d)
                 /\ Get(leaderboard', d, << >>) = Get(leaderboard, d, << >>)
    ]_vars

\* The board of chat 1 was reset while its session had a tally: the chat has
\* no board, its records and the session are there, and so is the board of
\* chat 2.
C30_Witness ==
  /\ 1 \notin DOMAIN leaderboard
  /\ send_leaderboard(1) = << >>
  /\ 1 \in DOMAIN group_state
  /\ group_state[1].user_stats # << >>
  /\ Get(results_history, 1, << >>) # << >>
  /\ send_leaderboard(2) # << >>

\* ---------------------------------------------------------------------- C31
\* The step changes the board of chat c, or creates or removes it.
BoardChanged(c) ==
  \/ (c \in DOMAIN leaderboard) # (c \in DOMAIN leaderboard')
  \/ Get(leaderboard', c, << >>) # Get(leaderboard, c, << >>)

\* The step is handle_answer accepting an answer in chat c.
AcceptedAnswerIn(c) ==
  \E cb \in Callbacks :
    /\ cb[1] = c
    /\ AnswerOutcome(cb[1], cb[2], cb[3], cb[4]) = "Accepted"
    /\ handle_answer(cb[1], cb[2], cb[3], cb[4], cb[5])

\* C31: a chat's board is changed only by handle_answer accepting an answer
\* of the chat and by a permitted /resetboard of the chat; /quiz, pause,
\* resume, stop, timeout_check (a question timing out, a session ending) and
\* every refused answer leave it as it is, and no participant leaves a board
\* but by /resetboard.
C31_BoardChangedOnlyByAnswerAndReset ==
  [][\A c \in Rooms :
       /\ BoardChanged(c) => AcceptedAnswerIn(c) \/ handle_resetboard(c, TRUE)
       /\ \/ \A i \in 1 .. Len(Get(leaderboard, c, << >>)) :
               IndexOf(Get(leaderboard', c, << >>), leaderboard[c][i].uid) # 0
          \/ handle_resetboard(c, TRUE)
    ]_vars

\* Chat 1 still has a board with two participants after its session has come
\* to an end or was stopped and another one was started and paused.
C31_Witness ==
  /\ nStarts = 2
  /\ 1 \in DOMAIN leaderboard
  /\ Len(leaderboard[1]) = 2
  /\ 1 \in DOMAIN group_state
  /\ group_state[1].user_stats = << >>
  /\ QUIZ_PAUSED

\* ------------------------------------------------------ main: the dispatch
\* The first word of a message text, letter by letter.
CmdStart == << "/", "s", "t", "a", "r", "t" >>
CmdQuiz == << "/", "q", "u", "i", "z" >>
CmdQuizPause == CmdQuiz \o << "_", "p", "a", "u", "s", "e" >>
CmdQuizResume == CmdQuiz \o << "_", "r", "e", "s", "u", "m", "e" >>
CmdQuizStop == CmdQuiz \o << "_", "s", "t", "o", "p" >>
CmdLeaderboard == << "/", "l", "e", "a", "d", "e", "r", "b", "o", "a", "r", "d" >>
CmdLeaderboardToday == CmdLeaderboard \o << "_", "t", "o", "d", "a", "y" >>
CmdLeaderboardWeek == CmdLeaderboard \o << "_", "w", "e", "e", "k" >>
CmdLeaderboardMonth == CmdLeaderboard \o << "_", "m", "o", "n", "t", "h" >>
CmdAddq == << "/", "a", "d", "d", "q" >>
CmdBulkadd == << "/", "b", "u", "l", "k", "a", "d", "d" >>
CmdEditq == << "/", "e", "d", "i", "t", "q" >>
CmdRemoveq == << "/", "r", "e", "m", "o", "v", "e", "q" >>
CmdResetboard == << "/", "r", "e", "s", "e", "t", "b", "o", "a", "r", "d" >>
CmdListq == << "/", "l", "i", "s", "t", "q" >>
CmdExportq == << "/", "e", "x", "p", "o", "r", "t", "q" >>
CmdExportpdf == << "/", "e", "x", "p", "o", "r", "t", "p", "d", "f" >>
CmdTest == << "/", "t", "e", "s", "t" >>
CmdSettime == << "/", "s", "e", "t", "t", "i", "m", "e" >>

\* text.startswith(prefix)
startswith(text, prefix) ==
  Len(text) >= Len(prefix) /\ SubSeq(text, 1, Len(prefix)) = prefix

\* The handler that the if/elif chain of main() calls for a message text.
dispatch(text) ==
  IF startswith(text, CmdStart) THEN "start_command"
  ELSE IF startswith(text, CmdQuiz) THEN "start_quiz"
  ELSE IF startswith(text, CmdQuizPause) THEN "quiz_pause"
  ELSE IF startswith(text, CmdQuizResume) THEN "quiz_resume"
  ELSE IF startswith(text, CmdQuizStop) THEN "quiz_stop"
  ELSE IF startswith(text, CmdLeaderboardToday) THEN "handle_leaderboard_today"
  ELSE IF startswith(text, CmdLeaderboardWeek) THEN "handle_leaderboard_week"
  ELSE IF startswith(text, CmdLeaderboardMonth) THEN "handle_leaderboard_month"
  ELSE IF startswith(text, CmdLeaderboard) THEN "show_leaderboard"
  ELSE IF startswith(text, CmdAddq) THEN "handle_addq"
  ELSE IF startswith(text, CmdBulkadd) THEN "handle_bulkadd"
  ELSE IF startswith(text, CmdEditq) THEN "handle_editq"
  ELSE IF startswith(text, CmdRemoveq) THEN "handle_removeq"
  ELSE IF startswith(text, CmdResetboard) THEN "handle_resetboard"
  ELSE IF startswith(text, CmdListq) THEN "handle_listq"
  ELSE IF startswith(text, CmdExportq) THEN "handle_exportq"
  ELSE IF startswith(text, CmdExportpdf) THEN "handle_exportpdf"
  ELSE IF startswith(text, CmdTest) THEN "handle_test"
  ELSE IF startswith(text, CmdSettime) THEN "handle_settime"
  ELSE "none"

\* The message texts sent: the first word, and the words that follow it.
MainTexts ==
  { [word |-> CmdQuiz, args |-> t] : t \in QuizTexts }
    \cup { [word |-> w, args |-> << >>] :
             w \in {CmdQuizPause, CmdQuizResume, CmdQuizStop, CmdResetboard,
                    CmdLeaderboard, CmdLeaderboardToday} }

\* The handlers that write none of the variables.
ReadOnlyHandlers ==
  {"start_command", "handle_leaderboard_today", "handle_leaderboard_week",
   "handle_leaderboard_month", "show_leaderboard", "none"}

\* What the handler called for the message answers.
MessageOutcome(chat, admin, text) ==
  LET h == dispatch(text.word)
  IN CASE h = "start_quiz" ->
            StartOutcome(chat, admin, parse_quiz_args(text.args)[1],
                         parse_quiz_args(text.args)[2])
       [] h = "quiz_pause" -> PauseOutcome(admin)
       [] h = "quiz_resume" -> ResumeOutcome(admin)
       [] h = "quiz_stop" -> StopOutcome(admin)
       [] OTHER -> h

\* The body of main()'s loop for an update that holds a message.
main_message(chat, admin, text, reply) ==
  LET h == dispatch(text.word)
  IN CASE h = "start_quiz" ->
            start_quiz(chat, admin, parse_quiz_args(text.args)[1],
                       parse_quiz_args(text.args)[2], reply)
       [] h = "quiz_pause" -> quiz_pause(chat, admin)
       [] h = "quiz_resume" -> quiz_resume(chat, admin)
       [] h = "quiz_stop" -> quiz_stop(chat, admin)
       [] h = "handle_resetboard" -> handle_resetboard(chat, admin)
       [] h \in ReadOnlyHandlers -> UNCHANGED vars

\* main(): timeout_check, then the updates received, one after the other.
NextMain ==
  \/ \E d \in Deltas : Advance(d)
  \/ timeout_check(Delivered)
  \/ \E r \in Requests, text \in MainTexts : main_message(r[1], r[2], text, Delivered)
  \/ \E cb \in Callbacks : handle_answer(cb[1], cb[2], cb[3], cb[4], cb[5])

SpecMain == Init /\ [][NextMain]_vars

\* ---------------------------------------------------------------------- C32
\* C32 as stated: main() calls quiz_pause for /quiz_pause, quiz_resume for
\* /quiz_resume and quiz_stop for /quiz_stop, so that an admin's /quiz_pause
\* pauses a running quiz, /quiz_resume resumes a paused one and /quiz_stop
\* stops a running one.
C32_CommandsReachTheirOperations ==
  /\ dispatch(CmdQuizPause) = "quiz_pause"
  /\ dispatch(CmdQuizResume) = "quiz_resume"
  /\ dispatch(CmdQuizStop) = "quiz_stop"
  /\ \A c \in Rooms :
       /\ QUIZ_RUNNING /\ ~QUIZ_PAUSED
            => MessageOutcome(c, TRUE, [word |-> CmdQuizPause, args |-> << >>]) = "Paused"
       /\ QUIZ_PAUSED
            => MessageOutcome(c, TRUE, [word |-> CmdQuizResume, args |-> << >>]) = "Resumed"
       /\ QUIZ_RUNNING
            => MessageOutcome(c, TRUE, [word |-> CmdQuizStop, args |-> << >>]) = "Stopped"

\* What the code does instead: the three messages are handled as /quiz
\* without arguments, and no message ever pauses a quiz.
C32_HandledAsQuiz ==
  /\ \A w \in {CmdQuizPause, CmdQuizResume, CmdQuizStop} : dispatch(w) = "start_quiz"
  /\ ~QUIZ_PAUSED
  /\ \A c \in Rooms, w \in {CmdQuizPause, CmdQuizResume, CmdQuizStop} :
       MessageOutcome(c, TRUE, [word |-> w, args |-> << >>])
         = StartOutcome(c, TRUE, NoTopic, "short")

\* A quiz is running in chat 1 and an admin's /quiz_stop in chat 2, where no
\* session is, would start a quiz there.
C32_Reached ==
  /\ QUIZ_RUNNING
  /\ 1 \in DOMAIN group_state
  /\ 2 \notin DOMAIN group_state
  /\ MessageOutcome(2, TRUE, [word |-> CmdQuizStop, args |-> << >>]) = "Started"

\* ------------------------------------------------- sessions that go on to end
\* Largest clock value of the behaviours in which time passes only while a
\* session is in progress: two sessions of two questions, 60 seconds each.
MaxLiveNow == 241

\* Time passes while a session is in progress, and only after timeout_check
\* has dealt with every question whose time is up: main() calls timeout_check
\* in every round of its loop.
LiveAdvance(d) ==
  /\ now + d <= MaxLiveNow
  /\ \E c \in Rooms : HasRunningSession(c)
  /\ ~\E c \in Rooms : HasRunningSession(c) /\ Due(c)
  /\ now' = now + d
  /\ UNCHANGED << QUESTIONS, QUESTION_TIME, QUIZ_RUNNING, QUIZ_PAUSED, group_state,
                  leaderboard, results_history, nStarts, nAnswers, sessAcc, everAcc >>

\* Starts and stops in both chats, answers, the passes of timeout_check and
\* the clock; nobody pauses.
NextLive ==
  \/ \E d \in Deltas : LiveAdvance(d)
  \/ timeout_check(Delivered)
  \/ \E r \in Requests, a \in QuizArgs : start_quiz(r[1], r[2], a[1], a[2], Delivered)
  \/ \E r \in Requests : quiz_stop(r[1], r[2])
  \/ \E cb \in Callbacks : handle_answer(cb[1], cb[2], cb[3], cb[4], cb[5])

\* main() goes on calling timeout_check, and time goes on.
SpecLive ==
  /\ Init
  /\ [][NextLive]_vars
  /\ WF_vars(timeout_check(Delivered))
  /\ WF_vars(\E d \in Deltas : LiveAdvance(d))

\* ---------------------------------------------------------------------- C33
\* C33 as stated: while main() keeps calling timeout_check and time passes, a
\* session with questions left does not stay so for ever: it comes to its
\* last question's end, or a stop removes it.
C33_SessionsComeToAnEnd ==
  \A c \in Rooms : HasRunningSession(c) ~> ~HasRunningSession(c)

\* ------------------------------------------------------- the question bank
\* The position of the question with the id in the bank; 0 where the code
\* returns -1 (positions count from 1 here and from 0 in the code).
find_question_index_by_id(bank, q_id) ==
  IF \E i \in 1 .. Len(bank) : bank[i].id = q_id
  THEN CHOOSE i \in 1 .. Len(bank) :
         bank[i].id = q_id /\ \A j \in 1 .. i - 1 : bank[j].id # q_id
  ELSE 0

\* QUESTIONS.pop(idx)
PopAt(bank, idx) == SubSeq(bank, 1, idx - 1) \o SubSeq(bank, idx + 1, Len(bank))

\* The loop of handle_removeq over the ids of the message.
RECURSIVE RemoveIds(_, _)
RemoveIds(bank, ids) ==
  IF ids = << >> THEN bank
  ELSE LET idx == find_question_index_by_id(bank, Head(ids))
       IN RemoveIds(IF idx = 0 THEN bank ELSE PopAt(bank, idx), Tail(ids))

\* The ids of the /removeq messages sent, and << id, number of the right
\* option >> of the /editq messages sent.
RemoveTexts == { << 11 >>, << 12 >>, << 12, 11 >>, << 99 >> }
EditTexts == {11, 99} \X {1, 2, 5}

handle_removeq(allowed, ids) ==
  /\ QUESTIONS' = IF allowed THEN RemoveIds(QUESTIONS, ids) ELSE QUESTIONS
  /\ UNCHANGED << QUESTION_TIME, QUIZ_RUNNING, QUIZ_PAUSED, group_state, leaderboard,
                  results_history, now, nStarts, nAnswers, sessAcc, everAcc >>

handle_editq(allowed, q_id, correct_num) ==
  LET idx == find_question_index_by_id(QUESTIONS, q_id)
  IN /\ QUESTIONS' = IF allowed /\ idx # 0 /\ correct_num \in 1 .. 4
                     THEN [QUESTIONS EXCEPT ![idx].correct = correct_num - 1]
                     ELSE QUESTIONS
     /\ UNCHANGED << QUESTION_TIME, QUIZ_RUNNING, QUIZ_PAUSED, group_state, leaderboard,
                     results_history, now, nStarts, nAnswers, sessAcc, everAcc >>

\* The quiz of chat 1 while questions are edited and removed.
NextEdit ==
  \/ \E d \in Deltas : Advance(d)
  \/ timeout_check(Delivered)
  \/ \E a \in QuizArgs : start_quiz(1, TRUE, a[1], a[2], Delivered)
  \/ \E cb \in Callbacks : cb[1] = 1 /\ handle_answer(cb[1], cb[2], cb[3], cb[4], cb[5])
  \/ \E allowed \in BOOLEAN, ids \in RemoveTexts : handle_removeq(allowed, ids)
  \/ \E allowed \in BOOLEAN, e \in EditTexts : handle_editq(allowed, e[1], e[2])

SpecEdit == Init /\ [][NextEdit]_vars

\* ---------------------------------------------------------------------- C34
\* C34 as stated: as long as a session stays at the same place of its order,
\* every step, the removal and the editing of questions included, leaves
\* order[q_index] the position of a question of the bank, and of the question
\* with the same id as before.
C34_OrderKeepsItsQuestions ==
  [][\A c \in DOMAIN group_state \cap DOMAIN group_state' :
       ( /\ HasRunningSession(c)
         /\ ~LookupFails(group_state[c])
         /\ group_state'[c].order = group_state[c].order
         /\ group_state'[c].q_index = group_state[c].q_index )
         => /\ group_state[c].order[group_state[c].q_index + 1] <= Len(QUESTIONS')
            /\ QUESTIONS'[group_state[c].order[group_state[c].q_index + 1]].id
                 = CurrentQuestion(group_state[c]).id
    ]_vars

\* ---------------------------------------------------------------------- C35
\* The chat's session has come to the end of its order.
Completed(c) ==
  c \in DOMAIN group_state /\ group_state[c].q_index >= Len(group_state[c].order)

\* Nothing gets into a completed session: no answer is accepted, a pass of
\* timeout_check leaves it as it is and writes no record, and /quiz is not
\* refused on its account.
C35_CompletedIsClosed ==
  \A c \in Rooms :
    Completed(c)
      => /\ \A cb \in Callbacks :
              cb[1] = c
                => /\ AnswerOutcome(cb[1], cb[2], cb[3], cb[4]) # "Accepted"
                   /\ AnswerState(cb[1], cb[2], cb[3], cb[4], cb[5]) = group_state
                   /\ AnswerBoard(cb[1], cb[2], cb[3], cb[4], cb[5]) = leaderboard
         /\ \A res \in Replies : TickState(c, res) = group_state[c]
         /\ TickRecords(c) = << >>
         /\ \A a \in QuizArgs : StartOutcome(c, TRUE, a[1], a[2]) # "SessionAlreadyRunning"

\* C35: once a session has reached q_index == len(order), no answer of the
\* chat is accepted and no pass of timeout_check changes its tallies, its
\* q_index, the chat's board or the chat's records; the entry stays as it is
\* until stop removes it or /quiz puts a new session in its place, which is at
\* q_index 0 with no answers and no tallies.
C35_CompletedUntilNewStart ==
  /\ [][\A c \in Rooms :
          Completed(c)
            => /\ \/ c \notin DOMAIN group_state'
                  \/ group_state'[c] = group_state[c]
                  \/ /\ group_state'[c].q_index = 0
                     /\ group_state'[c].answers = {}
                     /\ group_state'[c].user_stats = << >>
                     /\ group_state'[c].order # << >>
                     /\ group_state'[c].start = now
                     /\ nStarts' = nStarts + 1
               /\ Get(results_history', c, << >>) = Get(results_history, c, << >>)
               /\ \/ Get(leaderboard', c, << >>) = Get(leaderboard, c, << >>)
                  \/ handle_resetboard(c, TRUE)
       ]_vars
  /\ []C35_CompletedIsClosed

\* Chat 1 has a new session, with nothing answered yet, after a session whose
\* records are in the history and whose marks are on the board.
C35_Witness ==
  /\ nStarts = 2
  /\ 1 \in DOMAIN group_state
  /\ group_state[1].q_index = 0
  /\ group_state[1].user_stats = << >>
  /\ Get(results_history, 1, << >>) # << >>
  /\ Get(leaderboard, 1, << >>) # << >>

\* ---------------------------------------------------------------------- C36
\* The step is a pause or a resume, by any sender in any chat.
PauseOrResume == \E r \in Requests : quiz_pause(r[1], r[2]) \/ quiz_resume(r[1], r[2])

\* C36: quiz_pause and quiz_resume write QUIZ_PAUSED and nothing else: every
\* session (order, q_index, start, answers, tallies), every board, the
\* history and QUIZ_RUNNING stay as they are; the time of the question on
\* display goes on counting from the same start, so that a question whose time
\* ran out during the pause is due as soon as the quiz is resumed.
C36_PauseWritesOnlyTheFlag ==
  [][PauseOrResume
       => /\ group_state' = group_state
          /\ leaderboard' = leaderboard
          /\ results_history' = results_history
          /\ QUIZ_RUNNING' = QUIZ_RUNNING
          /\ \A c \in DOMAIN group_state : Elapsed(c)' = Elapsed(c)
          /\ \A c \in DOMAIN group_state :
               ( QUIZ_PAUSED /\ ~QUIZ_PAUSED' /\ QUIZ_RUNNING /\ TimeUp(group_state[c]) )
                 => Due(c)'
    ]_vars

\* The quiz is paused with an answer recorded in chat 1, and the time of the
\* question on display has run out.
C36_Witness ==
  /\ QUIZ_PAUSED
  /\ HasRunningSession(1)
  /\ group_state[1].answers # {}
  /\ TimeUp(group_state[1])

\* ---------------------------------------------------------------------- C37
\* C37: QUIZ_PAUSED implies QUIZ_RUNNING in every reachable state: quiz_pause
\* sets the flag only while QUIZ_RUNNING holds, quiz_stop clears both, start_quiz
\* sets QUIZ_RUNNING and clears QUIZ_PAUSED, and a session that comes to its
\* end writes neither.
C37_PausedImpliesRunning == QUIZ_PAUSED => QUIZ_RUNNING

\* The quiz is paused, after a session of chat 1 has come to its end and a
\* second /quiz was accepted.
C37_Witness ==
  /\ QUIZ_PAUSED /\ QUIZ_RUNNING
  /\ nStarts >= 2
  /\ \E c \in Rooms : Completed(c)

\* ---------------------------------------------------------------------- C38
\* C38: in every session every tally entry has attempted = correct + wrong and
\* attempted >= 1, no participant has two entries, and every participant noted
\* in answers for the question on display has a tally entry.
C38_TallyAddsUp ==
  \A c \in DOMAIN group_state :
    LET st == group_state[c]
    IN /\ \A i \in 1 .. Len(st.user_stats) :
            /\ st.user_stats[i].attempted = st.user_stats[i].correct + st.user_stats[i].wrong
            /\ st.user_stats[i].attempted >= 1
            /\ st.user_stats[i].correct >= 0 /\ st.user_stats[i].wrong >= 0
            /\ \A j \in 1 .. Len(st.user_stats) :
                 st.user_stats[i].uid = st.user_stats[j].uid => i = j
       /\ \A u \in st.answers : IndexOf(st.user_stats, u) # 0

\* A participant of some chat has a right and a wrong answer in the tally and
\* is noted for the question on display.
C38_Witness ==
  \E c \in DOMAIN group_state :
    \E u \in group_state[c].answers :
      /\ TallyOf(group_state[c], u).correct >= 1
      /\ TallyOf(group_state[c], u).wrong >= 1

\* ============================================================================
\* The time per question: load_settings and handle_settime
\* ============================================================================
MIN_QUESTION_TIME == 5
MAX_QUESTION_TIME == 600

DigitChars == << "0", "1", "2", "3", "4", "5", "6", "7", "8", "9" >>

IsDigit(ch) == \E d \in 1 .. 10 : DigitChars[d] = ch

DigitValue(ch) == (CHOOSE d \in 1 .. 10 : DigitChars[d] = ch) - 1

RECURSIVE DigitsValue(_)
DigitsValue(s) ==
  IF s = << >> THEN 0
  ELSE 10 * DigitsValue(SubSeq(s, 1, Len(s) - 1)) + DigitValue(s[Len(s)])

\* int(text) of a text of characters: an optional sign and decimal digits;
\* anything else raises ValueError (ok = FALSE).
int(s) ==
  LET signed == s # << >> /\ s[1] \in {"-", "+"}
      body == IF signed THEN Tail(s) ELSE s
      good == body # << >> /\ \A i \in 1 .. Len(body) : IsDigit(body[i])
  IN IF ~good THEN [ok |-> FALSE, value |-> 0]
     ELSE [ok |-> TRUE,
           value |-> IF s[1] = "-" THEN 0 - DigitsValue(body) ELSE DigitsValue(body)]

\* int(data["QUESTION_TIME"]) of a value read from JSON: a number as it is,
\* a text as int(text), null raises TypeError.
int_of_json(v) ==
  IF v.type = "int" THEN [ok |-> TRUE, value |-> v.n]
  ELSE IF v.type = "str" THEN int(v.s)
  ELSE [ok |-> FALSE, value |-> 0]

JsonInt(n) == [type |-> "int", n |-> n, s |-> << >>]
JsonStr(s) == [type |-> "str", n |-> 0, s |-> s]
JsonNull == [type |-> "null", n |-> 0, s |-> << >>]

\* settings.json as load_settings can find it: absent, not JSON, JSON that
\* is no dict, a dict without the key, and a dict with the key.
SettingsFiles ==
  { [exists |-> FALSE, json |-> "none", value |-> JsonNull],
    [exists |-> TRUE, json |-> "broken", value |-> JsonNull],
    [exists |-> TRUE, json |-> "list", value |-> JsonNull],
    [exists |-> TRUE, json |-> "dict", value |-> JsonNull] }
  \cup { [exists |-> TRUE, json |-> "dict_with_key", value |-> v] :
           v \in { JsonInt(4), JsonInt(5), JsonInt(30), JsonInt(601), JsonInt(0 - 1),
                   JsonStr(<< "6", "0" >>), JsonStr(<< "a", "b", "c" >>),
                   JsonStr(<< "9", "9", "9" >>), JsonNull } }

\* QUESTION_TIME when load_settings returns
load_settings(file, current) ==
  IF ~file.exists THEN current
  ELSE IF file.json # "dict_with_key" THEN current
  ELSE LET qt == int_of_json(file.value)
       IN IF qt.ok /\ MIN_QUESTION_TIME <= qt.value /\ qt.value <= MAX_QUESTION_TIME
          THEN qt.value
          ELSE current

\* message["text"].split() of the /settime messages tried
SettimeTexts ==
  { << CmdSettime >> }
  \cup { << CmdSettime, t >> :
           t \in { << "5" >>, << "6", "0" >>, << "6", "0", "0" >>, << "4" >>,
                   << "6", "0", "1" >>, << "-", "5" >>, << "0" >>,
                   << "a", "b", "c" >>, << "6", "0", "s" >> } }
  \cup { << CmdSettime, << "6", "0" >>, << "x" >> >> }

\* Variant of SettimeOutcome without the test of the range.
SettimeOutcome_AnyNumber(allowed, parts) ==
  IF ~allowed THEN "NotAuthorized"
  ELSE IF Len(parts) < 2 THEN "Usage"
  ELSE IF ~int(parts[2]).ok THEN "NotANumber"
  ELSE "Set"

SettimeOutcome(allowed, parts) ==
  IF ~allowed THEN "NotAuthorized"
  ELSE IF Len(parts) < 2 THEN "Usage"
  ELSE IF ~int(parts[2]).ok THEN "NotANumber"
  ELSE IF ~(MIN_QUESTION_TIME <= int(parts[2]).value /\ int(parts[2]).value <= MAX_QUESTION_TIME)
       THEN "OutOfRange"
  ELSE "Set"

handle_settime(allowed, parts) ==
  /\ QUESTION_TIME' = IF SettimeOutcome(allowed, parts) = "Set"
                      THEN int(parts[2]).value
                      ELSE QUESTION_TIME
  /\ UNCHANGED << QUESTIONS, QUIZ_RUNNING, QUIZ_PAUSED, group_state, leaderboard,
                  results_history, now, nStarts, nAnswers, sessAcc, everAcc >>

\* The state when main has called load_settings, for each file it can find.
InitSettings ==
  /\ QUESTIONS = InitialQuestions
  /\ \E file \in SettingsFiles : QUESTION_TIME = load_settings(file, DEFAULT_QUESTION_TIME)
  /\ QUIZ_RUNNING = FALSE
  /\ QUIZ_PAUSED = FALSE
  /\ group_state = << >>
  /\ leaderboard = << >>
  /\ results_history = << >>
  /\ now = 1
  /\ nStarts = 0
  /\ nAnswers = 0
  /\ sessAcc = [c \in Rooms |-> [k \in QuestionIds \X Users |-> 0]]
  /\ everAcc = [k \in Rooms \X QuestionIds \X Users |-> 0]

NextSettings ==
  \/ \E d \in Deltas : Advance(d)
  \/ timeout_check(Delivered)
  \/ \E a \in QuizArgs : start_quiz(1, TRUE, a[1], a[2], Delivered)
  \/ \E cb \in Callbacks : cb[1] = 1 /\ handle_answer(cb[1], cb[2], cb[3], cb[4], cb[5])
  \/ \E allowed \in BOOLEAN, parts \in SettimeTexts : handle_settime(allowed, parts)

SpecSettings == InitSettings /\ [][NextSettings]_vars

\* ---------------------------------------------------------------------- C39
\* QUESTION_TIME is within the limits.
TimeInRange == MIN_QUESTION_TIME <= QUESTION_TIME /\ QUESTION_TIME <= MAX_QUESTION_TIME

\* C39: QUESTION_TIME is 45 unless settings.json or a /settime gave another
\* value, and it lies in 5 .. 600 in every state: load_settings keeps 45 for
\* every file that holds no number of that range, /settime stores a number of
\* that range and nothing else, and a /settime that is refused (not allowed, no
\* argument, no number, out of range) leaves QUESTION_TIME as it is.
C39_TimeWithinLimits ==
  /\ [][ \/ QUESTION_TIME' = QUESTION_TIME
         \/ /\ \A allowed \in BOOLEAN, parts \in SettimeTexts :
                 SettimeOutcome(allowed, parts) # "Set" => ~handle_settime(allowed, parts)
            /\ \E parts \in SettimeTexts :
                 SettimeOutcome(TRUE, parts) = "Set" /\ handle_settime(TRUE, parts)
       ]_vars
  /\ []TimeInRange
  /\ [](\A file \in SettingsFiles :
          LET qt == load_settings(file, DEFAULT_QUESTION_TIME)
          IN /\ MIN_QUESTION_TIME <= qt /\ qt <= MAX_QUESTION_TIME
             /\ qt # DEFAULT_QUESTION_TIME
                  => file.json = "dict_with_key" /\ int_of_json(file.value).value = qt)

\* /settime 600 was accepted while a session of chat 1 is in progress: no file
\* of SettingsFiles gives 600.
C39_Witness ==
  /\ QUESTION_TIME = MAX_QUESTION_TIME
  /\ HasRunningSession(1)
  /\ SettimeOutcome(TRUE, << CmdSettime, << "6", "0", "1" >> >>) = "OutOfRange"
  /\ SettimeOutcome(TRUE, << CmdSettime, << "a", "b", "c" >> >>) = "NotANumber"

====
